---- MODULE Spec2Model ----
(***************************************************************************)
(* dhampyr: the three-phase field validation engine.                       *)
(*                                                                         *)
(*   SpecReq   Requirement.validate applied to every value class, policy   *)
(*             and configuration (requirement.py).                         *)
(*   Spec      Validator.validate called on one raw value: requirement     *)
(*             gate, Converter.convert, Verifier.verify for each verifier. *)
(*   SpecDict  validate_dict driving the fields of a class through their   *)
(*             validators and merging the results (api.py).                *)
(*   SpecRem   validate_dict recording the input keys no field consumed    *)
(*             in context.remainders (api.py, context.py).                 *)
(*   SpecPath  ValidationPath rendered to text and parsed from it          *)
(*             (failures.py).                                              *)
(*   SpecTree  a CompositeValidationFailure built with add and read by     *)
(*             item access, iteration and or_else (failures.py).           *)
(*   SpecCtx   the configuration read on a ValidationContext: explicit     *)
(*             settings, entered types, parent contexts (context.py).      *)
(*   SpecDefault  the global default configuration entered as a scope      *)
(*             (config.py).                                                *)
(*   SpecFamily  configure on one context of a family of contexts          *)
(*             (context.py).                                               *)
(*   SpecMethods  the post-hoc verifier methods of a class fetched and     *)
(*             invoked after the fields (api.py).                          *)
(*   SpecKeys  settings with an unknown key handed to derive, set,         *)
(*             configure and validatable (config.py, context.py, api.py).  *)
(*   SpecShare  the paths of the contexts along the blocks of              *)
(*             validate_dict, with and without share_context (context.py). *)
(*   SpecGlobal  settings read on root contexts while the global default   *)
(*             changes (context.py, config.py).                            *)
(*                                                                         *)
(* Converter and verifier callables are supplied by the user of the        *)
(* library; their outcome for each argument is an input of the model.      *)
(***************************************************************************)
EXTENDS Integers, Sequences, FiniteSets, TLC

\* ------------------------------------------------------------------ bounds
\* Longest iterable input.
MaxLen == 2
\* Most verifiers declared on one validator.
MaxVerifiers == 2
\* Most entries of the empty_specs setting.
MaxSpecs == 2
\* Fields declared on the class given to validate_dict.
NumFields == 2
\* Longest validation path, in segments.
MaxSegments == 3
\* Deepest failure below the root of a composite failure, and the number of
\* add calls that build the tree.
MaxDepth == 3
MaxAdds == 3
\* Contexts made, and nested `with context.on(...)` blocks.
MaxContexts == 2
MaxScopes == 2
\* Configuration objects made by entering the global default.
MaxObjects == 4
\* Contexts of one family: a root, its children and theirs.
MaxFamily == 4
\* VerifierMethods declared on one class.
MaxMethods == 2
\* Longest iterable field walked with its element contexts.
MaxElems == 2

\* ------------------------------------------------------------------ values
\* A python value is [type, items]; the elements of a raw iterable are the
\* atoms 1, 2, ...  None inside a list is the atom NoneAtom, and NewAtom is
\* what a converter makes of an element when it does not hand it back.
NoneAtom == -1
NewAtom == 0

VALUE_MISSING == [type |-> "missing", items |-> <<>>]
None == [type |-> "none", items |-> <<>>]

IterableTypes == {"str", "bytes", "list", "set"}

SeqsUpTo(S, n) == UNION {[1..m -> S] : m \in 0..n}

IsIterable(value) == value.type \in IterableTypes

\* The element python hands out when iterating a value.
ElemValue(value, i) ==
    IF value.items[i] = NoneAtom THEN None
    ELSE [type |-> IF value.type = "str" THEN "str" ELSE "int",
          items |-> <<value.items[i]>>]

\* ---------------------------------------------------------------- failures
NoFailure == [cls |-> "None", name |-> "", msg |-> "", owner |-> "", items |-> <<>>]

ValidationFailure(cls, name, msg, owner) ==
    [cls |-> cls, name |-> name, msg |-> msg, owner |-> owner, items |-> <<>>]

MissingFailure == ValidationFailure("MissingFailure", "missing", "This value is required.", "")
NullFailure == ValidationFailure("NullFailure", "null", "This value must not be null.", "")
EmptyFailure == ValidationFailure("EmptyFailure", "empty", "This value must not be empty.", "")
MalformedFailure ==
    ValidationFailure("MalformedFailure", "malformed",
                      "Input of the validation suite is not like dictinoary.", "")

\* CompositeValidationFailure: an insertion-ordered map, kept as a sequence
\* of [key, f] entries.
CompositeValidationFailure(entries) ==
    [cls |-> "CompositeValidationFailure", name |-> "invalid",
     msg |-> "Validation failed", owner |-> "", items |-> entries]

RECURSIVE IndexOfKey(_, _, _)
IndexOfKey(entries, key, i) ==
    IF i > Len(entries) THEN 0
    ELSE IF entries[i].key = key THEN i
    ELSE IndexOfKey(entries, key, i + 1)

\* CompositeValidationFailure.add: self.failures[key] = f
add(entries, key, f) ==
    LET at == IndexOfKey(entries, key, 1) IN
    IF at = 0 THEN Append(entries, [key |-> key, f |-> f])
    ELSE [entries EXCEPT ![at] = [key |-> key, f |-> f]]

Keys(failure) == {failure.items[i].key : i \in 1..Len(failure.items)}

\* ------------------------------------------------------------- requirement
Policies == {"FAIL", "SKIP", "CONTINUE", "CONTEXTUAL", "REQUIRES"}

_fails(error, skip, allow) == [failure |-> error, cont |-> FALSE]

_skips(error, skip, allow) == [failure |-> NoFailure, cont |-> FALSE]

_continue(error, skip, allow) == [failure |-> NoFailure, cont |-> TRUE]

_contextual_keep(error, skip, allow) == [failure |-> NoFailure, cont |-> skip]

_contextual(error, skip, allow) == [failure |-> NoFailure, cont |-> ~skip]

_requires(error, skip, allow) ==
    IF allow THEN [failure |-> NoFailure, cont |-> FALSE]
    ELSE [failure |-> error, cont |-> FALSE]

RequirementPolicy(policy, error, skip, allow) ==
    CASE policy = "FAIL" -> _fails(error, skip, allow)
      [] policy = "SKIP" -> _skips(error, skip, allow)
      [] policy = "CONTINUE" -> _continue(error, skip, allow)
      [] policy = "CONTEXTUAL" -> _contextual(error, skip, allow)
      [] policy = "REQUIRES" -> _requires(error, skip, allow)

_check_empty(value) ==
    \/ value.type = "str" /\ value.items = <<>>
    \/ value.type = "bytes" /\ Len(value.items) = 0
    \/ value.type \in {"list", "set"} /\ Len(value.items) = 0

\* isinstance(value, t) for an empty_specs entry; "object" is every type's base.
IsInstance(value, t) == t = "object" \/ value.type = t

\* An empty_specs entry is [t, callable, holds]: `holds` is the set of
\* values the predicate accepts (callable) or the one value equal to the
\* literal.
SpecMatches(entry, value) ==
    IF entry.callable /\ value \in entry.holds THEN TRUE
    ELSE ~entry.callable /\ entry.holds = {value}

RECURSIVE EmptyBySpecs(_, _, _)
\* The loop left at the first entry of the value's type.
EmptyBySpecs_first(specs, value, i) ==
    IF i > Len(specs) THEN FALSE
    ELSE IF IsInstance(value, specs[i].t) THEN SpecMatches(specs[i], value)
    ELSE EmptyBySpecs(specs, value, i + 1)

\* for t, f in context.config.empty_specs: the loop returns at the first
\* entry of the value's type that holds and goes on otherwise.
EmptyBySpecs(specs, value, i) ==
    IF i > Len(specs) THEN FALSE
    ELSE IF IsInstance(value, specs[i].t) /\ SpecMatches(specs[i], value) THEN TRUE
    ELSE EmptyBySpecs(specs, value, i + 1)

\* Requirement.validate
RequirementValidate(requirement, value, config) ==
    IF value = VALUE_MISSING
    THEN RequirementPolicy(requirement.missing, MissingFailure, FALSE, FALSE)
    ELSE IF value = None
    THEN RequirementPolicy(requirement.null, NullFailure,
                           config.skip_null, config.allow_null)
    ELSE IF _check_empty(value) \/ EmptyBySpecs(config.empty_specs, value, 1)
    THEN RequirementPolicy(requirement.empty, EmptyFailure,
                           config.skip_empty, config.allow_empty)
    ELSE [failure |-> NoFailure, cont |-> TRUE]

\* ------------------------------------------------------- callable outcomes
\* What a converter callable does with one argument: return None, return
\* the argument, return a new value, raise PartialFailure built by the abort()
\* of the catching phase's failure class (abort) or by an abort() whose
\* builder does not take the catching phase's keyword (abort_alien), raise a
\* ValidationFailure of its own (fail), or raise any other exception (raise).
ConvOutcomes == {"ok_none", "ok_same", "ok_new", "abort", "abort_alien", "fail", "raise"}
\* What a verifier callable does: return true / false, or raise as above.
VerOutcomes == {"true", "false", "abort", "abort_alien", "fail", "raise"}

\* Outcomes of the callables explored in validate_dict.
DictConvOutcomes == {"ok_none", "ok_same", "raise"}
DictVerOutcomes == {"true", "false"}

AbortMsg == "abort arguments"
ExcMsg == "exception message"
NewValue == [type |-> "int", items |-> <<NewAtom>>]
DomainFailure == ValidationFailure("ValidationFailure", "invalid", "Validation failed", "")

\* --------------------------------------------------------------- converter
ConversionFailure(message, converter) ==
    ValidationFailure("ConversionFailure", converter.name, message, converter.name)

ConvResult(value, failure, raised) == [value |-> value, failure |-> failure, raised |-> raised]

\* conv(v, i) of Converter.convert: (converted value, failure); `raised` is
\* an exception leaving conv.
conv_nomsg(converter, v, out) ==
    CASE out = "ok_none" -> ConvResult(None, NoFailure, FALSE)
      [] out = "ok_same" -> ConvResult(v, NoFailure, FALSE)
      [] out = "ok_new" -> ConvResult(NewValue, NoFailure, FALSE)
      [] out = "abort" -> ConvResult(None, ConversionFailure(AbortMsg, converter), FALSE)
      [] out = "abort_alien" -> ConvResult(None, NoFailure, TRUE)
      [] out = "fail" -> ConvResult(None, DomainFailure, FALSE)
      [] out = "raise" -> ConvResult(None, ConversionFailure("", converter), FALSE)

conv(converter, v, out) ==
    CASE out = "ok_none" -> ConvResult(None, NoFailure, FALSE)
      [] out = "ok_same" -> ConvResult(v, NoFailure, FALSE)
      [] out = "ok_new" -> ConvResult(NewValue, NoFailure, FALSE)
      [] out = "abort" -> ConvResult(None, ConversionFailure(AbortMsg, converter), FALSE)
      [] out = "abort_alien" -> ConvResult(None, NoFailure, TRUE)
      [] out = "fail" -> ConvResult(None, DomainFailure, FALSE)
      [] out = "raise" -> ConvResult(None, ConversionFailure(ExcMsg, converter), FALSE)

\* A converted element stored back into a list.
AsAtom(value) == IF value = None THEN NoneAtom ELSE value.items[1]

\* failures = [(i, f) for i, (v, f) in enumerate(results) if f is not None],
\* added to a composite in that order (python indices start at 0).
RECURSIVE CollectFailures(_, _)
CollectFailures(fs, i) ==
    IF i > Len(fs) THEN <<>>
    ELSE IF fs[i] = NoFailure THEN CollectFailures(fs, i + 1)
    ELSE <<[key |-> i - 1, f |-> fs[i]]>> \o CollectFailures(fs, i + 1)

ListOf(atoms) == [type |-> "list", items |-> atoms]

\* The result of the iterable branch of Converter.convert from the per-element
\* results.
JoinResults_nojoin(results, config) ==
    LET n == Len(results)
        failures == CollectFailures([i \in 1..n |-> results[i].failure], 1)
    IN IF \E i \in 1..n : results[i].raised
       THEN ConvResult(None, NoFailure, TRUE)
       ELSE ConvResult(ListOf([i \in 1..n |-> IF results[i].failure # NoFailure
                                               THEN NoneAtom
                                               ELSE AsAtom(results[i].value)]),
                       IF Len(failures) = 0 THEN NoFailure
                       ELSE CompositeValidationFailure(failures), FALSE)

JoinResults(results, config) ==
    LET n == Len(results)
        failures == CollectFailures([i \in 1..n |-> results[i].failure], 1)
    IN IF \E i \in 1..n : results[i].raised
       THEN ConvResult(None, NoFailure, TRUE)
       ELSE IF Len(failures) = 0
       THEN ConvResult(ListOf([i \in 1..n |-> AsAtom(results[i].value)]), NoFailure, FALSE)
       ELSE IF ~config.join_on_fail
       THEN ConvResult(ListOf([i \in 1..n |-> IF results[i].failure # NoFailure
                                               THEN NoneAtom
                                               ELSE AsAtom(results[i].value)]),
                       CompositeValidationFailure(failures), FALSE)
       ELSE ConvResult(None, CompositeValidationFailure(failures), FALSE)

\* Converter.convert(value, context) with the callable's outcome for each
\* call in `outs`; `raised` is an exception leaving convert.
ConverterConvert_stopfirst(converter, value, outs, config) ==
    IF ~converter.is_iter
    THEN conv(converter, value, outs[1])
    ELSE IF ~IsIterable(value)
    THEN ConvResult(None, NoFailure, TRUE)
    ELSE LET n == Len(value.items)
             all == [i \in 1..n |-> conv(converter, ElemValue(value, i), outs[i])]
             bad == {i \in 1..n : all[i].failure # NoFailure}
             first == IF bad = {} THEN n ELSE CHOOSE i \in bad : \A j \in bad : i <= j
         IN JoinResults([i \in 1..n |-> IF i <= first THEN all[i]
                                        ELSE ConvResult(None, NoFailure, FALSE)], config)

ConverterConvert(converter, value, outs, config) ==
    IF ~converter.is_iter
    THEN conv(converter, value, outs[1])
    ELSE IF ~IsIterable(value)
    THEN ConvResult(None, NoFailure, TRUE)
    ELSE JoinResults([i \in 1..Len(value.items) |->
                         conv(converter, ElemValue(value, i), outs[i])], config)

\* ---------------------------------------------------------------- verifier
VerificationFailure(message, verifier) ==
    ValidationFailure("VerificationFailure", verifier.name, message, verifier.name)

VerFailedMsg(verifier) == "Verification by " \o verifier.name \o " failed."

VerResult(failure, raised) == [failure |-> failure, raised |-> raised]

\* ver(v, i) of Verifier.verify: the failure, or NoFailure
ver(verifier, out) ==
    CASE out = "true" -> VerResult(NoFailure, FALSE)
      [] out = "false" -> VerResult(VerificationFailure(VerFailedMsg(verifier), verifier), FALSE)
      [] out = "abort" -> VerResult(VerificationFailure(AbortMsg, verifier), FALSE)
      [] out = "abort_alien" -> VerResult(NoFailure, TRUE)
      [] out = "fail" -> VerResult(DomainFailure, FALSE)
      [] out = "raise" -> VerResult(VerificationFailure(ExcMsg, verifier), FALSE)

\* Verifier.verify(value, context)
VerifierVerify(verifier, value, outs) ==
    IF ~verifier.is_iter
    THEN ver(verifier, outs[1])
    ELSE IF ~IsIterable(value)
    THEN VerResult(NoFailure, TRUE)
    ELSE LET n == Len(value.items)
             results == [i \in 1..n |-> ver(verifier, outs[i])]
             failures == CollectFailures([i \in 1..n |-> results[i].failure], 1)
         IN IF \E i \in 1..n : results[i].raised
            THEN VerResult(NoFailure, TRUE)
            ELSE IF Len(failures) = 0
            THEN VerResult(NoFailure, FALSE)
            ELSE VerResult(CompositeValidationFailure(failures), FALSE)

\* The callable invocations one convert / verify makes, in order: the
\* element index of each (python index; -1 for the single scalar call).  An
\* exception leaving the callable's wrapper ends the comprehension.
RECURSIVE FirstAlien(_, _)
FirstAlien(outs, i) ==
    IF i > Len(outs) THEN Len(outs)
    ELSE IF outs[i] = "abort_alien" THEN i
    ELSE FirstAlien(outs, i + 1)

CallsOf(who, n, callable, value, outs) ==
    IF ~callable.is_iter
    THEN <<[who |-> who, n |-> n, i |-> -1, arg |-> value, out |-> outs[1]]>>
    ELSE IF ~IsIterable(value) THEN <<>>
    ELSE [i \in 1..FirstAlien(outs, 1) |->
             [who |-> who, n |-> n, i |-> i - 1, arg |-> ElemValue(value, i), out |-> outs[i]]]

\* The outcomes a callable can have over the calls made for `value`.
OutcomesFor(callable, value, outcomes) ==
    IF callable.is_iter /\ IsIterable(value)
    THEN [1..Len(value.items) -> outcomes]
    ELSE [1..1 -> outcomes]

\* ---------------------------------------------------------- ValidationPath
\* A path segment is a key of a dictionary or an index of an iterable. A
\* text is the sequence of its characters, so that rendering a path and
\* parsing a text are computed character by character as failures.py does.
Key(chars) == [isint |-> FALSE, s |-> chars, n |-> 0]
Idx(n) == [isint |-> TRUE, s |-> <<>>, n |-> n]

Letters == {"a", "b", "_"}
Digits == <<"0", "1", "2", "3", "4", "5", "6", "7", "8", "9">>
IsLetter(c) == c \in Letters
IsDigit(c) == \E d \in 1..Len(Digits) : Digits[d] = c

\* str(n) of a non-negative int
RECURSIVE DecimalOf(_)
DecimalOf(n) ==
    IF n < Len(Digits) THEN <<Digits[n + 1]>>
    ELSE DecimalOf(n \div Len(Digits)) \o <<Digits[(n % Len(Digits)) + 1]>>

DigitValue(c) == (CHOOSE d \in 1..Len(Digits) : Digits[d] = c) - 1

\* int(text) of a text of digits
RECURSIVE IntOf(_)
IntOf(text) ==
    IF Len(text) = 0 THEN 0
    ELSE IntOf(SubSeq(text, 1, Len(text) - 1)) * Len(Digits) + DigitValue(text[Len(text)])

\* at(positions): a key is written as it is at position 0 and after a dot
\* elsewhere, an index between square brackets.
exp_nodot(i, p) ==
    IF p.isint THEN <<"[">> \o DecimalOf(p.n) \o <<"]">> ELSE p.s

exp_dotted(i, p) ==
    IF p.isint THEN <<"[">> \o DecimalOf(p.n) \o <<"]">>
    ELSE <<".">> \o p.s

exp(i, p) ==
    IF p.isint THEN <<"[">> \o DecimalOf(p.n) \o <<"]">>
    ELSE IF i = 0 THEN p.s ELSE <<".">> \o p.s

RECURSIVE at(_)
at(positions) ==
    IF Len(positions) = 0 THEN <<>>
    ELSE at(SubSeq(positions, 1, Len(positions) - 1))
         \o exp(Len(positions) - 1, positions[Len(positions)])

\* path.split("."): the pieces between the dots, at least one.
RECURSIVE split(_)
split(text) ==
    IF \A i \in 1..Len(text) : text[i] # "."
    THEN <<text>>
    ELSE LET dot == CHOOSE i \in 1..Len(text) :
                        text[i] = "." /\ \A j \in 1..(i - 1) : text[j] # "."
         IN <<SubSeq(text, 1, dot - 1)>> \o split(SubSeq(text, dot + 1, Len(text)))

\* PATH_ITEM_REGEXP group 1, ([a-zA-Z_][0-9a-zA-Z_]*)? : how many characters
\* of the item the key takes.
RECURSIVE WordEnd(_, _)
WordEnd(item, i) ==
    IF i <= Len(item) /\ (IsLetter(item[i]) \/ IsDigit(item[i]))
    THEN WordEnd(item, i + 1) ELSE i - 1

KeyLen(item) ==
    IF Len(item) > 0 /\ IsLetter(item[1]) THEN WordEnd(item, 2) ELSE 0

\* Where the run of digits that starts at i ends.
RECURSIVE DigitsEnd(_, _)
DigitsEnd(item, i) ==
    IF i <= Len(item) /\ IsDigit(item[i]) THEN DigitsEnd(item, i + 1) ELSE i - 1

\* PATH_ITEM_REGEXP group 2, ((\[[0-9]+\])+)? from position i on, as
\* map(int, indexes[1:-1].split("][")): the indexes of the bracket groups
\* that follow each other; the match ends at the first thing that is not one.
RECURSIVE Indexes(_, _)
Indexes(item, i) ==
    IF i <= Len(item) /\ item[i] = "["
    THEN LET e == DigitsEnd(item, i + 1) IN
         IF e > i /\ e + 1 <= Len(item) /\ item[e + 1] = "]"
         THEN <<Idx(IntOf(SubSeq(item, i + 1, e)))>> \o Indexes(item, e + 2)
         ELSE <<>>
    ELSE <<>>

\* ValidationPath.of.parse_index: [key] if key, then the indexes
parse_index(item) ==
    LET n == KeyLen(item) IN
    (IF n > 0 THEN <<Key(SubSeq(item, 1, n))>> ELSE <<>>) \o Indexes(item, n + 1)

RECURSIVE Chain(_)
Chain(seqs) ==
    IF Len(seqs) = 0 THEN <<>> ELSE Head(seqs) \o Chain(Tail(seqs))

\* ValidationPath.of(path)
of(text) ==
    LET items == split(text) IN
    Chain([i \in 1..Len(items) |-> parse_index(items[i])])

under_eq(self, other) == self = other

\* ValidationPath.under: other is a prefix of self, segment by segment.
under(self, other) ==
    /\ Len(self) >= Len(other)
    /\ \A i \in 1..Len(other) : self[i] = other[i]

\* -- inputs of the round trips
\* Identifier-like keys and non-negative indexes.
PathKeys == {<<"a">>, <<"b", "1">>, <<"_">>}
PathIndexes == {0, 1, 10}
Segments == {Key(k) : k \in PathKeys} \cup {Idx(n) : n \in PathIndexes}
Paths == SeqsUpTo(Segments, MaxSegments)

\* The texts of the path grammar: segment ("." segment)*, a segment being
\* identifier? ("[" integer "]")*.
IntegerTexts == {<<"0">>, <<"1">>, <<"0", "1">>, <<"1", "0">>}
RECURSIVE Bracketed(_)
Bracketed(ints) ==
    IF Len(ints) = 0 THEN <<>>
    ELSE <<"[">> \o Head(ints) \o <<"]">> \o Bracketed(Tail(ints))

SegmentTexts ==
    {k \o Bracketed(ints) : k \in {<<>>, <<"a">>, <<"b", "1">>},
                            ints \in SeqsUpTo(IntegerTexts, 1)}
        \cup {<<"[", "1", "]", "[", "0", "]">>, <<"a", "[", "0", "]", "[", "1", "0", "]">>}

RECURSIVE Dotted(_)
Dotted(segs) ==
    IF Len(segs) = 1 THEN Head(segs)
    ELSE Head(segs) \o <<".">> \o Dotted(Tail(segs))

WellFormedTexts == {Dotted(segs) : segs \in SeqsUpTo(SegmentTexts, MaxSegments) \ {<<>>}}

\* ------------------------------------------------- composite failure trees
\* A tree of failures is built with CompositeValidationFailure.add and read
\* by item access, by iteration and by ValidationResult.or_else.
Leaf(name) == ValidationFailure("ValidationFailure", name, "Validation failed", "")
EmptyComposite == CompositeValidationFailure(<<>>)
IsComposite(f) == f.cls = "CompositeValidationFailure"
IsFailure(f) == f.cls \notin {"None", "TypeError"}

\* What an item access on None does.
NotSubscriptable == [cls |-> "TypeError", name |-> "", msg |-> "", owner |-> "", items |-> <<>>]

\* bool(f): __len__ decides, 1 for a plain failure, the number of entries
\* for a composite; None is false.
len(f) == IF IsComposite(f) THEN Len(f.items) ELSE 1
Truthy(f) == f.cls # "None" /\ len(f) > 0

\* self.failures.get(key, None)
get(f, key) ==
    LET at_ == IndexOfKey(f.items, key, 1) IN
    IF at_ = 0 THEN NoFailure ELSE f.items[at_].f

\* p in f, for one segment p of a parsed path:
\* CompositeValidationFailure.__contains__ / ValidationFailure.__contains__
Contains(f, p) == IsComposite(f) /\ IndexOfKey(f.items, p, 1) # 0

\* f[p] for one segment p: an int goes to failures.get; a key is looked up
\* as a path of one segment, which on a composite without entries stays at
\* the empty dict and so answers the composite itself.
Item(f, p) ==
    IF ~IsComposite(f) THEN NoFailure
    ELSE IF p.isint THEN get(f, p)
    ELSE IF Len(f.items) = 0 THEN f
    ELSE get(f, p)

\* The loop of CompositeValidationFailure.__getitem__ over the segments:
\* f = f and (f[p] if p in f else None), starting from the dict self.failures
\* (indict) and going on with the failure found.
RECURSIVE Walk(_, _, _, _)
Walk(self, f, indict, segs) ==
    IF Len(segs) = 0 THEN (IF indict THEN self ELSE f)
    ELSE IF indict
    THEN IF Len(self.items) = 0 THEN self
         ELSE Walk(self, get(self, Head(segs)), FALSE, Tail(segs))
    ELSE IF ~Truthy(f) THEN Walk(self, f, FALSE, Tail(segs))
    ELSE Walk(self, IF Contains(f, Head(segs)) THEN Item(f, Head(segs)) ELSE NoFailure,
              FALSE, Tail(segs))

GetItemText_first(self, text) ==
    IF ~IsComposite(self) THEN NoFailure
    ELSE Walk(self, self, TRUE, IF Len(of(text)) = 0 THEN <<>> ELSE <<Head(of(text))>>)

\* failures[text]
GetItemText(self, text) ==
    IF ~IsComposite(self) THEN NoFailure
    ELSE Walk(self, self, TRUE, of(text))

\* text in failures: CompositeValidationFailure.__contains__ along the
\* segments of the parsed text
RECURSIVE ContainsFrom(_, _)
ContainsFrom(cf, segs) ==
    IF Len(segs) = 0 THEN TRUE
    ELSE IF ~IsComposite(cf) THEN FALSE
    ELSE IF IndexOfKey(cf.items, Head(segs), 1) = 0 THEN FALSE
    ELSE ContainsFrom(get(cf, Head(segs)), Tail(segs))

ContainsText(self, text) == ContainsFrom(self, of(text))

\* failures[k] for a key or an index k
GetItem(self, k) ==
    IF self.cls = "None" \/ self.cls = "TypeError" THEN NotSubscriptable
    ELSE IF ~IsComposite(self) THEN NoFailure
    ELSE IF k.isint THEN get(self, k)
    ELSE GetItemText(self, k.s)

\* failures[k1][k2]...[kn]
RECURSIVE Chained(_, _)
Chained(self, ks) ==
    IF Len(ks) = 0 THEN self ELSE Chained(GetItem(self, Head(ks)), Tail(ks))

\* CompositeValidationFailure.__iter__(pos): the entries in the order of
\* the dict, a composite replaced by what it yields.
RECURSIVE IterFrom(_, _, _)
Iter_flat(self, pos) ==
    [i \in 1..Len(self.items) |->
        [path |-> pos \o <<self.items[i].key>>, f |-> self.items[i].f]]

Iter(self, pos) == IterFrom(self, pos, 1)

IterFrom(self, pos, i) ==
    IF i > Len(self.items) THEN <<>>
    ELSE LET k == self.items[i].key
             f == self.items[i].f
         IN (IF IsComposite(f) THEN Iter(f, pos \o <<k>>)
             ELSE <<[path |-> pos \o <<k>>, f |-> f]>>)
            \o IterFrom(self, pos, i + 1)

\* ValidationFailure.__iter__: a plain failure yields itself at the empty path
ValidationFailure_iter(f) == <<[path |-> <<>>, f |-> f]>>

\* list(failures) of a ValidationResult
FailurePairs(f) == IF IsComposite(f) THEN Iter(f, <<>>) ELSE ValidationFailure_iter(f)

\* ValidationResult.or_else(handler, allows): the validated value when
\* every failure path is under an allowed path, handler(failures) otherwise.
OrElse(failures_, allows) ==
    LET pairs == Iter(failures_, <<>>) IN
    IF \A i \in 1..Len(pairs) : \E a \in allows : under(pairs[i].path, of(a))
    THEN "validated" ELSE "handler"

\* The failure object held under the keys of `path`, None if there is none.
RECURSIVE NodeAt(_, _)
NodeAt(self, path) ==
    IF Len(path) = 0 THEN self
    ELSE IF ~IsComposite(self) THEN NoFailure
    ELSE NodeAt(get(self, Head(path)), Tail(path))

\* node.add(key, f) on the composite reached from the root by `path`.
RECURSIVE AddAt(_, _, _, _)
AddAt(self, path, key, f) ==
    IF Len(path) = 0 THEN CompositeValidationFailure(add(self.items, key, f))
    ELSE CompositeValidationFailure(
            add(self.items, Head(path), AddAt(get(self, Head(path)), Tail(path), key, f)))

\* -- inputs
TreeKeys == {Key(<<"a">>), Key(<<"b">>), Idx(1)}
\* The n-th add call adds a failure of its own or a composite to be filled.
LeafNames == <<"f1", "f2", "f3", "f4", "f5", "f6">>
TreeValues(n) == {Leaf(LeafNames[n]), EmptyComposite}
KeySeqs == SeqsUpTo(TreeKeys, MaxDepth)
AllowedTexts == {at(ks) : ks \in {<<Key(<<"a">>)>>, <<Key(<<"a">>), Key(<<"b">>)>>,
                                  <<Key(<<"a">>), Idx(1)>>, <<Key(<<"b">>)>>}}
AllowedLists == {al \in SUBSET AllowedTexts : Cardinality(al) <= 2}

\* ------------------------------------------------------- post-hoc methods
\* @validate(**dependencies): positive are the fields given True, negative
\* those given False.
VerifierMethod(positive, negative) == [positive |-> positive, negative |-> negative]

\* A rule that takes one succeeded True dependency for enough.
fulfill_dependencies_any(m, keys) ==
    IF m.negative \cap keys # {} THEN FALSE
    ELSE IF m.positive # {} /\ m.positive \ keys # {} THEN TRUE
    ELSE keys = {}

\* VerifierMethod.fulfill_dependencies(failures), keys the keys of failures
fulfill_dependencies(m, keys) ==
    IF m.negative \cap keys # {} THEN FALSE
    ELSE IF m.positive # {} /\ m.positive \cap keys = {} THEN TRUE
    ELSE keys = {}

\* Deciding on a method when its turn in the loop comes.
Fetched_lazy(m, fetched, now) == fulfill_dependencies(m, now)

\* fetch_verifier_methods: the list [to_vm(k) for k in dir(cls)] is built
\* before the first method is invoked, from the failures held then.
Fetched(m, fetched, now) == fulfill_dependencies(m, fetched)

\* -- inputs: the fields and methods of TestDependency and a few more
DependencyFields == {"v1", "v2", "v3"}
MethodNames == <<"ver1", "ver2", "ver3", "ver4">>
Dependencies ==
    {VerifierMethod({}, {}), VerifierMethod({"v1"}, {}), VerifierMethod({"v1", "v2"}, {}),
     VerifierMethod({"v1"}, {"v3"}), VerifierMethod({}, {"v3"}),
     VerifierMethod({"v1", "v2"}, {"v3"})}

\* ---------------------------------------------------- configuration stacks
\* The settings are read one by one; two of them stand for all.  A partial
\* set of settings (a dict of some of them) has NotSet where it has no key.
SettingKeys == {"name", "skip_null"}
NotSet == "-"
NoSettings == [k \in SettingKeys |-> NotSet]
Has(settings, key) == settings[key] # NotSet

\* ValidationConfiguration(): the values of the global default.
DefaultConfiguration == [k \in SettingKeys |-> "default"]

\* typed_config().get(t): C registers a name, D a name and skip_null, E is
\* not registered (None, which `if config:` takes like an empty dict).
ContextTypes == {"C", "D", "E"}
typed_config(t) ==
    CASE t = "C" -> [NoSettings EXCEPT !.name = "C"]
      [] t = "D" -> [k \in SettingKeys |-> "D"]
      [] OTHER -> NoSettings

\* ValidationContext.Stack(base): base 0 is the plain configuration the
\* root context was made with, any other base the Stack of the parent.
NewStack(base) == [base |-> base, stack |-> <<NoSettings>>, contextual |-> NoSettings]

\* ConfigurationStack.push / pop
push(s, config) == [s EXCEPT !.stack = Append(@, config)]
pop(s) == IF Len(s.stack) > 1 THEN [s EXCEPT !.stack = SubSeq(@, 1, Len(@) - 1)] ELSE s

\* ConfigurationStack.derive(): type(self)(self), then push(settings) with
\* no settings.
derive(base) == push(NewStack(base), NoSettings)

\* ConfigurationStack.on(t)
on(s, t) == IF typed_config(t) # NoSettings THEN push(s, typed_config(t)) ELSE s

\* Stack.set(settings), one setting at a time
set(s, key, value) == [s EXCEPT !.contextual[key] = value]

\* for config in self.stack[::-1]: if key in config: return config[key]
RECURSIVE FirstInStack(_, _)
FirstInStack(stack, key) ==
    IF Len(stack) = 0 THEN NotSet
    ELSE IF Has(stack[Len(stack)], key) THEN stack[Len(stack)][key]
    ELSE FirstInStack(SubSeq(stack, 1, Len(stack) - 1), key)

\* while isinstance(base, ValidationContext.Stack): the contextual settings
\* of the bases, nearest first.
RECURSIVE BaseContextual(_, _, _)
BaseContextual(ss, base, key) ==
    IF base = 0 THEN NotSet
    ELSE IF Has(ss[base].contextual, key) THEN ss[base].contextual[key]
    ELSE BaseContextual(ss, ss[base].base, key)

\* Stack.__getattr__(key) of the stack ss[i] with the order of the typed
\* entries and the bases' contextual settings exchanged.
RECURSIVE StackGetattr_typedfirst(_, _, _)
StackGetattr_typedfirst(ss, i, key) ==
    IF i = 0 THEN DefaultConfiguration[key]
    ELSE IF Has(ss[i].contextual, key) THEN ss[i].contextual[key]
    ELSE IF FirstInStack(ss[i].stack, key) # NotSet THEN FirstInStack(ss[i].stack, key)
    ELSE StackGetattr_typedfirst(ss, ss[i].base, key)

\* Stack.__getattr__(key) of the stack ss[i]: its contextual settings, those
\* of its bases, then ConfigurationStack.__getattr__: its stack from the
\* top, then getattr(self.base, key).
RECURSIVE StackGetattr(_, _, _)
StackGetattr(ss, i, key) ==
    IF i = 0 THEN DefaultConfiguration[key]
    ELSE IF Has(ss[i].contextual, key) THEN ss[i].contextual[key]
    ELSE IF BaseContextual(ss, ss[i].base, key) # NotSet
         THEN BaseContextual(ss, ss[i].base, key)
    ELSE IF FirstInStack(ss[i].stack, key) # NotSet THEN FirstInStack(ss[i].stack, key)
    ELSE StackGetattr(ss, ss[i].base, key)

\* context.config read setting by setting
Effective(ss, i) == [k \in SettingKeys |-> StackGetattr(ss, i, k)]

\* What configure(name=...) is called with on the i-th context.
ConfiguredKeys == {"name"}
ExplicitValues == <<"c1", "c2", "c3", "c4", "c5", "c6">>

\* context.configure(key=value) on the i-th context: self._config.set.
\* With share_context on every context is the root itself.
configure_shared(ss, i, key, value) == [ss EXCEPT ![1] = set(@, key, value)]
configure(ss, i, key, value) == [ss EXCEPT ![i] = set(@, key, value)]

\* ----------------------------------------------------- the ambient default
\* contextual.__enter__: contextual() and self._copy_to(derived), a new
\* object with a deep copy of every field.
contextual_enter(objects, self) == Append(objects, objects[self])

\* contextual.__exit__: config_var().set(self)
contextual_exit_keep(self, current) == current
contextual_exit(self, current) == self

\* What a setting of the ambient default is changed to.
ModifiedValues == {"default", "modified"}

\* ------------------------------------------------ configuration keys given
\* The keyword arguments of a call: the settings of ValidationConfiguration
\* and one name that is no field of it; a key that is not passed is NotSet.
AllKeys == SettingKeys \cup {"unknown"}
NoKeys == [k \in AllKeys |-> NotSet]
GivenKeys(settings) == {k \in AllKeys : settings[k] # NotSet}

\* ValidationConfiguration._check_fields(**kwargs): TRUE when it raises
_check_fields(settings) == {k \in GivenKeys(settings) : k \notin SettingKeys} # {}

\* ValidationConfiguration.derive(**settings): KeyError, or a new object
ValidationConfiguration_derive(self, settings) ==
    IF _check_fields(settings)
    THEN [raised |-> TRUE, result |-> NoSettings]
    ELSE [raised |-> FALSE,
          result |-> [k \in SettingKeys |->
                        IF settings[k] # NotSet THEN settings[k] ELSE self[k]]]

\* ValidationConfiguration.set(**settings): KeyError, or the fields assigned
ValidationConfiguration_set(self, settings) ==
    IF _check_fields(settings)
    THEN [raised |-> TRUE, result |-> self]
    ELSE [raised |-> FALSE,
          result |-> [k \in SettingKeys |->
                        IF settings[k] # NotSet THEN settings[k] ELSE self[k]]]

\* ValidationContext.Stack.set(settings): self.contextual.update(settings)
Stack_set(contextual_, settings) ==
    [k \in AllKeys |-> IF settings[k] # NotSet THEN settings[k] ELSE contextual_[k]]

\* TypedConfiguration.put(t, settings): self.holder[t] = settings
TypedConfiguration_put(held, settings) == settings

\* ------------------------------------------------------- paths of contexts
\* A context as far as its path goes: its parent (base, 0 for a root), the
\* stack and the contextual settings of its Stack reduced to share_context,
\* its path and the child contexts it holds by key.
NoShare == [share_context |-> NotSet]
Share == [share_context |-> "True"]
RootContext ==
    [base |-> 0, stack |-> <<NoShare>>, contextual |-> NoShare, path |-> <<>>, children |-> {}]

\* ValidationContext(self.path + key, parent=self): the Stack is
\* parent._config.derive()
ChildContext(cs, parent, key) ==
    [base |-> parent, stack |-> <<NoShare, NoShare>>, contextual |-> NoShare,
     path |-> Append(cs[parent].path, key), children |-> {}]

\* self.config.share_context: Stack.__getattr__, the default being False
RECURSIVE share_context(_, _)
share_context(cs, i) ==
    IF i = 0 THEN "False"
    ELSE IF Has(cs[i].contextual, "share_context") THEN cs[i].contextual.share_context
    ELSE IF BaseContextual(cs, cs[i].base, "share_context") # NotSet
         THEN BaseContextual(cs, cs[i].base, "share_context")
    ELSE IF FirstInStack(cs[i].stack, "share_context") # NotSet
         THEN FirstInStack(cs[i].stack, "share_context")
    ELSE share_context(cs, cs[i].base)

Shares(cs, i) == share_context(cs, i) = "True"

\* ValidationContext.__getitem__((key, internal_call)): the contexts after
\* the call and the context returned
getitem(cs, i, key, internal_call) ==
    IF Shares(cs, i)
    THEN [cs |-> IF internal_call THEN [cs EXCEPT ![i].path = Append(@, key)] ELSE cs,
          ctx |-> i]
    ELSE IF \E c \in cs[i].children : c.key = key
    THEN [cs |-> cs, ctx |-> (CHOOSE c \in cs[i].children : c.key = key).ctx]
    ELSE [cs |-> Append([cs EXCEPT ![i].children = @ \cup {[key |-> key, ctx |-> Len(cs) + 1]}],
                        ChildContext(cs, i, key)),
          ctx |-> Len(cs) + 1]

\* ValidationContext.__exit__
context_exit(cs, i) ==
    IF Shares(cs, i) /\ (cs[i].base = 0 \/ Shares(cs, cs[i].base))
    THEN [cs EXCEPT ![i].path = SubSeq(@, 1, Len(@) - 1)]
    ELSE cs

\* ConfigurationStack.on(t) with the types registered in reg
on_registered(c, t, reg) == IF t \in reg THEN push(c, Share) ELSE c

\* The classes validated:   class D: d = v([int]) ; e = v(int)
\*                          class C: a = v(int) ; b = v(D)
WalkFields(t) ==
    IF t = "C"
    THEN <<[key |-> Key(<<"a">>), kind |-> "scalar"], [key |-> Key(<<"b">>), kind |-> "nested"]>>
    ELSE <<[key |-> Key(<<"d">>), kind |-> "iterable"], [key |-> Key(<<"e">>), kind |-> "scalar"]>>

\* ------------------------------------------- root contexts and the default
\* ValidationContext(): Stack(config or default_config().derive()), the base
\* being a new object that holds a copy of every field of the default as it
\* is when the context is made
NewRoot(objects, current) ==
    [base |-> objects[current], stack |-> <<NoSettings>>, contextual |-> NoSettings]

\* context.config.key on a root context: Stack.__getattr__, which ends in
\* getattr(self.base, key)
RootGetattr(c, key) ==
    IF Has(c.contextual, key) THEN c.contextual[key]
    ELSE IF FirstInStack(c.stack, key) # NotSet THEN FirstInStack(c.stack, key)
    ELSE c.base[key]

\* ValidationContext.default(holder=[]): the list after the call
default(holder, objects, current) ==
    IF Len(holder) = 0 THEN <<NewRoot(objects, current)>> ELSE holder

\* ------------------------------------------------------------------- state
VARIABLES
    pc,          \* position of the running call
    cfg,         \* context.config of the call
    validator,   \* the Validator being run
    val,         \* the raw value handed to Validator.validate
    gate,        \* what Requirement.validate returned
    couts,       \* outcome of each converter call
    cur,         \* the converted value handed to the verifiers
    vidx,        \* index of the next verifier
    vouts,       \* outcome of each call of the verifier run last
    stop,        \* the failure that ended the run, before `silent` is applied
    calls,       \* the callable invocations so far, in order
    result,      \* the returned (value, failure, use_alt)
    req_in,      \* SpecReq: arguments of Requirement.validate
    req_out,     \* SpecReq: its result
    field,       \* validate_dict: index of the field in the loop (0: none)
    decl,        \* validate_dict: the declaration _put_default read for it
    dataclass,   \* validate_dict: is_dataclass(cls)
    attributes,  \* validate_dict: attributes, by field index
    failures,    \* validate_dict: entries of the composite `failures`
    rctx,        \* SpecRem: how the reused context and the class were set up
    rem,         \* SpecRem: context.remainders of the context at each path
    prev_rem,    \* SpecRem: the same maps before the latest validate_dict
    last,        \* SpecRem: the latest validate_dict call and how it ended
    path_call,   \* SpecPath: the ValidationPath call made and its argument
    path_text,   \* SpecPath: the text rendered
    path_path,   \* SpecPath: the segments parsed
    tree,        \* SpecTree: the root CompositeValidationFailure
    adds,        \* SpecTree: add calls made
    query,       \* SpecTree: the read made of the tree
    answer,      \* SpecTree: what it returned
    stacks,      \* SpecCtx: the Stack of each context made
    scopes,      \* SpecCtx: the `with context.on(t)` blocks being run
    exited,      \* SpecCtx: the block left last and the configuration then
    configs,     \* SpecDefault: the configuration objects made
    ambient,     \* SpecDefault: the one the ContextVar `config` holds
    withs,       \* SpecDefault: the `with default_config()` blocks being run
    gexit,       \* SpecDefault: the block entered or left last, and the configuration then
    configured,  \* SpecFamily: the configure call made last and what is read around it
    hcls,        \* SpecMethods: the VerifierMethods of the class, in dir() order
    hkeys,       \* SpecMethods: failure keys when fetch_verifier_methods was called
    hfail,       \* SpecMethods: failure keys now
    hidx,        \* SpecMethods: the method considered next (0: none yet)
    hran,        \* SpecMethods: the methods invoked
    kconf,       \* SpecKeys: the fields of a ValidationConfiguration
    kctx,        \* SpecKeys: Stack.contextual of a context
    kreg,        \* SpecKeys: typed_config().holder of a class
    klast,       \* SpecKeys: the last call that was handed settings
    wctx,        \* SpecShare: the contexts, the root first
    wframes,     \* SpecShare: the open blocks, innermost last
    wseen,       \* SpecShare: the path the last callable was handed
    wphase,      \* SpecShare: setup, run or done
    wreg,        \* SpecShare: the types registered with share_context
    welems,      \* SpecShare: the length of the iterable field
    gctx,        \* SpecGlobal: the root contexts made
    gholder,     \* SpecGlobal: the list that keeps the context of ValidationContext.default
    gread        \* SpecGlobal: the last setting read

vvars == <<pc, cfg, validator, val, gate, couts, cur, vidx, vouts, stop, calls, result>>
rvars == <<req_in, req_out>>
dvars == <<field, decl, dataclass, attributes, failures>>
mvars == <<rctx, rem, prev_rem, last>>
pvars == <<path_call, path_text, path_path>>
tvars == <<tree, adds, query, answer>>
cvars == <<stacks, scopes, exited>>
gvars == <<configs, ambient, withs, gexit>>
fvars == <<configured>>
hvars == <<hcls, hkeys, hfail, hidx, hran>>
kvars == <<kconf, kctx, kreg, klast>>
wvars == <<wctx, wframes, wseen, wphase, wreg, welems>>
nvars == <<gctx, gholder, gread>>
xvars == <<mvars, pvars, tvars, cvars, gvars, fvars, hvars, kvars, wvars, nvars>>
vars == <<vvars, rvars, dvars, xvars>>

\* ------------------------------------------------------------ input spaces
One == [type |-> "int", items |-> <<1>>]

\* The raw values: absent, None, an int, the empty string, and the lists
\* [1, ..., n] up to MaxLen elements.
RawValues ==
    {VALUE_MISSING, None, One, [type |-> "str", items |-> <<>>]}
    \cup {ListOf([i \in 1..n |-> i]) : n \in 0..MaxLen}

DefaultConfig ==
    [skip_null |-> TRUE, skip_empty |-> TRUE, allow_null |-> FALSE, allow_empty |-> FALSE,
     empty_specs |-> <<>>, join_on_fail |-> TRUE, ignore_remainders |-> FALSE,
     share_context |-> FALSE, implicit_default |-> FALSE]

Requirement(missing, null, empty) == [missing |-> missing, null |-> null, empty |-> empty]

NoGate == [failure |-> NoFailure, cont |-> FALSE]
NoResult == [value |-> None, failure |-> NoFailure, use_alt |-> FALSE]
NoValidator ==
    [requirement |-> Requirement("SKIP", "SKIP", "SKIP"),
     converter |-> [name |-> "", is_iter |-> FALSE], verifiers |-> <<>>, silent |-> FALSE]

VerName(n) == IF n = 1 THEN "gt" ELSE IF n = 2 THEN "lt" ELSE "ver"

\* ------------------------------------------------------------------ SpecReq
\* The policy following p in the enumeration.
NextPolicy(p) ==
    CASE p = "FAIL" -> "SKIP"
      [] p = "SKIP" -> "CONTINUE"
      [] p = "CONTINUE" -> "CONTEXTUAL"
      [] p = "CONTEXTUAL" -> "REQUIRES"
      [] p = "REQUIRES" -> "FAIL"

\* Every missing policy with every null policy; the empty policy differs
\* from the null policy.
AllRequirements == {Requirement(m, n, NextPolicy(n)) : m \in Policies, n \in Policies}

ReqValues ==
    {VALUE_MISSING, None, One}
    \cup {[type |-> t, items |-> s] : t \in IterableTypes, s \in {<<>>, <<1>>}}

\* (type, predicate) with a predicate that holds of nothing or of every
\* value tried, and (type, literal) with the literal 1.
EmptySpecEntries ==
    {[t |-> t, callable |-> TRUE, holds |-> h] :
        t \in {"int", "object"}, h \in {{}, ReqValues}}
    \cup {[t |-> t, callable |-> FALSE, holds |-> {One}] : t \in {"int", "object"}}

ReqConfigs ==
    {[DefaultConfig EXCEPT !.skip_null = sn, !.skip_empty = se, !.allow_null = an,
                           !.allow_empty = ae, !.empty_specs = es] :
        sn \in BOOLEAN, se \in BOOLEAN, an \in BOOLEAN, ae \in BOOLEAN,
        es \in SeqsUpTo(EmptySpecEntries, MaxSpecs)}

NoReqIn == [requirement |-> Requirement("SKIP", "SKIP", "SKIP"),
            config |-> DefaultConfig, value |-> VALUE_MISSING, called |-> FALSE]

VIdle ==
    /\ pc = "idle"
    /\ cfg = DefaultConfig
    /\ validator = NoValidator
    /\ val = VALUE_MISSING
    /\ gate = NoGate
    /\ couts = <<>>
    /\ cur = None
    /\ vidx = 0
    /\ vouts = <<>>
    /\ stop = NoFailure
    /\ calls = <<>>
    /\ result = NoResult

RIdle == req_in = NoReqIn /\ req_out = NoGate

\* dataclasses.MISSING
MISSING == [type |-> "MISSING", items |-> <<>>]

\* What _put_default reads of a field: getattr(cls, key, MISSING),
\* vf.default, whether vf.default_factory is set, validator.converter.returns
NoDecl == [field |-> MISSING, default |-> MISSING, default_factory |-> FALSE, returns |-> "Any"]

Unset == [set |-> FALSE, value |-> None]
Holds(value) == [set |-> TRUE, value |-> value]

Fields == 1..NumFields

DIdle ==
    /\ field = 0
    /\ decl = NoDecl
    /\ dataclass = FALSE
    /\ attributes = [k \in Fields |-> Unset]
    /\ failures = <<>>

\* Requirement.validate(value, context)
ReqValidate ==
    /\ ~req_in.called
    /\ \E requirement \in AllRequirements, config \in ReqConfigs, value \in ReqValues :
        /\ req_in' = [requirement |-> requirement, config |-> config,
                      value |-> value, called |-> TRUE]
        /\ req_out' = RequirementValidate(requirement, value, config)
        /\ UNCHANGED <<vvars, dvars, xvars>>

\* The context of SpecRem before it is created: no map holds anything.
ContextPaths == {<<>>, <<"b">>}
NoRun == [kind |-> "none", items |-> {}, ignore_remainders |-> FALSE, outcome |-> "none",
          validated |-> {}, posthoc |-> FALSE, value |-> "", failures |-> NoFailure]
MIdle ==
    /\ rctx = [share_context |-> FALSE, key_filter |-> "none", alias |-> "", created |-> FALSE]
    /\ rem = [p \in ContextPaths |-> {}]
    /\ prev_rem = [p \in ContextPaths |-> {}]
    /\ last = NoRun

NoPathCall == [op |-> "none", path |-> <<>>, text |-> <<>>]

PIdle == path_call = NoPathCall /\ path_text = <<>> /\ path_path = <<>>

NoQuery == [op |-> "none", keys |-> <<>>, allows |-> {}]
NoAnswer == [chained |-> NoFailure, bytext |-> NoFailure, pairs |-> <<>>, returned |-> "",
             contained |-> FALSE, held |-> NoFailure]

TIdle == tree = EmptyComposite /\ adds = 0 /\ query = NoQuery /\ answer = NoAnswer

NoLeave == [ctx |-> 0, type |-> "", depth |-> 0, expected |-> NoSettings, actual |-> NoSettings]
CIdle == stacks = <<NewStack(0)>> /\ scopes = <<>> /\ exited = NoLeave
NoExit == [op |-> "none", self |-> 0, at_entry |-> NoSettings, depth |-> 0,
           inside |-> NoSettings, after |-> NoSettings]
GIdle == configs = <<DefaultConfiguration>> /\ ambient = 1 /\ withs = <<>> /\ gexit = NoExit
NoConfigure == [ctx |-> 0, before |-> <<>>, after |-> <<>>,
                default_before |-> NoSettings, default_after |-> NoSettings]
FIdle == configured = NoConfigure
HIdle == hcls = <<>> /\ hkeys = {} /\ hfail = {} /\ hidx = 0 /\ hran = {}
NoKeyCall == [op |-> "none", settings |-> NoKeys, raised |-> FALSE, result |-> NoSettings,
              before |-> [conf |-> DefaultConfiguration, ctx |-> NoKeys, reg |-> NoKeys]]
KIdle == kconf = DefaultConfiguration /\ kctx = NoKeys /\ kreg = NoKeys /\ klast = NoKeyCall
NoCall == [op |-> "none", path |-> <<>>, location |-> <<>>]
WIdle == wctx = <<RootContext>> /\ wframes = <<>> /\ wseen = NoCall /\ wphase = "setup"
         /\ wreg = {} /\ welems = 0
NoRead == [op |-> "none", key |-> "", value |-> NotSet]
NIdle == gctx = <<>> /\ gholder = <<>> /\ gread = NoRead
XIdle == MIdle /\ PIdle /\ TIdle /\ CIdle /\ GIdle /\ FIdle /\ HIdle /\ KIdle /\ WIdle /\ NIdle

InitReq == VIdle /\ RIdle /\ DIdle /\ XIdle
NextReq == ReqValidate
SpecReq == InitReq /\ [][NextReq]_vars

\* --------------------------------------------------------------- validator
\* Validator.validate(value, context) -> (value, failure, use_alt): the
\* requirement gate, then the converter, then each verifier in declaration
\* order, returning at the first phase that fails.

\* `silent` suppresses the failure of the returned triple.
Suppress_keep(v, failure) == failure

Suppress(v, failure) == IF v.silent THEN NoFailure ELSE failure

\* Returned when the gate does not continue: the caller substitutes a default.
GateReturn_noalt(v, g) ==
    [value |-> None, failure |-> Suppress(v, g.failure), use_alt |-> FALSE]

GateReturn(v, g) ==
    [value |-> None, failure |-> Suppress(v, g.failure), use_alt |-> TRUE]

\* Returned when conversion fails: no value and a default requested, or the
\* partial list of an iterable converter under join_on_fail = false.
ConvertReturn_noalt(v, c) ==
    [value |-> c.value, failure |-> Suppress(v, c.failure), use_alt |-> FALSE]

ConvertReturn(v, c) ==
    [value |-> c.value, failure |-> Suppress(v, c.failure), use_alt |-> c.value = None]

\* Returned when a verifier fails; an iterable verifier under
\* join_on_fail = false keeps the elements that passed.
VerifyReturn(v, verifier, value, f, config) ==
    IF verifier.is_iter /\ ~config.join_on_fail
    THEN [value |-> ListOf([i \in 1..Len(value.items) |->
                        IF (i - 1) \in Keys(f) THEN NoneAtom ELSE value.items[i]]),
          failure |-> Suppress(v, f), use_alt |-> FALSE]
    ELSE [value |-> None, failure |-> Suppress(v, f), use_alt |-> TRUE]

SuccessReturn(value) == [value |-> value, failure |-> NoFailure, use_alt |-> FALSE]

\* Phase 1: failure, to_continue = self.requirement.validate(value, context)
Gate ==
    /\ pc = "gate"
    /\ LET g == RequirementValidate(validator.requirement, val, cfg) IN
       /\ gate' = g
       /\ IF g.cont
          THEN /\ pc' = "convert"
               /\ UNCHANGED <<result, stop>>
          ELSE /\ pc' = "validated"
               /\ stop' = g.failure
               /\ result' = GateReturn(validator, g)
    /\ UNCHANGED <<cfg, validator, val, couts, cur, vidx, vouts, calls>>

\* Phase 2: val, failure = self.converter.convert(value, context)
Convert ==
    /\ pc = "convert"
    /\ \E outs \in OutcomesFor(validator.converter, val,
                              IF field = 0 THEN ConvOutcomes ELSE DictConvOutcomes) :
        LET r == ConverterConvert(validator.converter, val, outs, cfg) IN
        /\ couts' = outs
        /\ calls' = calls \o CallsOf("converter", 0, validator.converter, val, outs)
        /\ IF r.raised
           THEN /\ pc' = "raised"
                /\ UNCHANGED <<cur, vidx, result, stop>>
           ELSE IF r.failure # NoFailure
           THEN /\ pc' = "validated"
                /\ stop' = r.failure
                /\ result' = ConvertReturn(validator, r)
                /\ UNCHANGED <<cur, vidx>>
           ELSE /\ pc' = "verify"
                /\ cur' = r.value
                /\ vidx' = 1
                /\ UNCHANGED <<result, stop>>
    /\ UNCHANGED <<cfg, validator, val, gate, vouts>>

\* if f: return at the first verifier that fails
VerificationStops_never(f) == FALSE

VerificationStops(f) == f # NoFailure

\* Phase 3: for verifier in self.verifiers: f = verifier.verify(val, context)
Verify ==
    /\ pc = "verify"
    /\ IF vidx > Len(validator.verifiers)
       THEN /\ pc' = "validated"
            /\ result' = SuccessReturn(cur)
            /\ UNCHANGED <<vidx, vouts, stop, calls>>
       ELSE LET verifier == validator.verifiers[vidx] IN
            \E outs \in OutcomesFor(verifier, cur,
                                    IF field = 0 THEN VerOutcomes ELSE DictVerOutcomes) :
                LET r == VerifierVerify(verifier, cur, outs) IN
                /\ vouts' = outs
                /\ calls' = calls \o CallsOf("verifier", vidx, verifier, cur, outs)
                /\ IF r.raised
                   THEN /\ pc' = "raised"
                        /\ UNCHANGED <<vidx, result, stop>>
                   ELSE IF VerificationStops(r.failure)
                   THEN /\ pc' = "validated"
                        /\ stop' = r.failure
                        /\ result' = VerifyReturn(validator, verifier, cur, r.failure, cfg)
                        /\ UNCHANGED vidx
                   ELSE /\ pc' = "verify"
                        /\ vidx' = vidx + 1
                        /\ UNCHANGED <<result, stop>>
    /\ UNCHANGED <<cfg, validator, val, gate, couts, cur>>

\* --------------------------------------------------------------------- Spec
\* Validator.validate called directly on a raw value.
\* v(...), +v(...) and a validator that continues on every value.
ValidatorRequirements ==
    {Requirement("SKIP", "CONTEXTUAL", "CONTEXTUAL"),
     Requirement("FAIL", "REQUIRES", "REQUIRES"),
     Requirement("CONTINUE", "CONTINUE", "CONTINUE")}

\* Up to MaxVerifiers verifiers, all scalar or all iterable.
VerifierLists ==
    {[n \in 1..m |-> [name |-> VerName(n), is_iter |-> it]] :
        m \in 0..MaxVerifiers, it \in BOOLEAN}

Validators ==
    {[requirement |-> r, converter |-> [name |-> "conv", is_iter |-> ci],
      verifiers |-> vs, silent |-> s] :
        r \in ValidatorRequirements, ci \in BOOLEAN, vs \in VerifierLists, s \in BOOLEAN}

\* Configurations of the call (SpecReq varies the four gate flags freely).
Configs ==
    {[DefaultConfig EXCEPT !.skip_null = sk, !.skip_empty = sk, !.join_on_fail = j] :
        sk \in BOOLEAN, j \in BOOLEAN}

\* v.validate(value, context)
Start ==
    /\ pc = "idle"
    /\ \E v \in Validators, c \in Configs, x \in RawValues :
        /\ validator' = v
        /\ cfg' = c
        /\ val' = x
    /\ pc' = "gate"
    /\ UNCHANGED <<gate, couts, cur, vidx, vouts, stop, calls, result>>

Init == VIdle /\ RIdle /\ DIdle /\ XIdle
Next ==
    \/ Start /\ UNCHANGED <<rvars, dvars, xvars>>
    \/ Gate /\ UNCHANGED <<rvars, dvars, xvars>>
    \/ Convert /\ UNCHANGED <<rvars, dvars, xvars>>
    \/ Verify /\ UNCHANGED <<rvars, dvars, xvars>>
Spec == Init /\ [][Next]_vars

\* ----------------------------------------------------------------- SpecDict
\* validate_dict(cls, values, context): the loop over the validators of cls.
FieldName(k) == CASE k = 1 -> "a" [] k = 2 -> "b" [] OTHER -> "c"

\* Values a declaration can name.
ExplicitDefault == [type |-> "int", items |-> <<5>>]
FactoryResult == [type |-> "list", items |-> <<5>>]
ClassValue == [type |-> "int", items |-> <<7>>]
FactoryField == [type |-> "ValidatorFactory", items |-> <<>>]

\* Types a converter declares to return (float and Decimal go with int,
\* Optional[...] goes with Any).
ReturnTypes == {"bool", "int", "str", "bytes", "Any", "list", "dict"}

\* The return types explored.
DictReturnTypes == {"int", "Any", "dict"}

\* The implicit default of put() for the type the converter returns.
ImplicitDefault(rt) ==
    CASE rt = "bool" -> Holds([type |-> "bool", items |-> <<0>>])
      [] rt = "int" -> Holds([type |-> "int", items |-> <<0>>])
      [] rt = "str" -> Holds([type |-> "str", items |-> <<>>])
      [] rt = "bytes" -> Holds([type |-> "bytes", items |-> <<>>])
      [] rt = "Any" -> Holds(None)
      [] rt = "list" -> Holds([type |-> "list", items |-> <<>>])
      [] OTHER -> Unset

\* put() of _put_default: what it stores under the key, if anything.
put(d, config) ==
    IF d.default # MISSING THEN Holds(d.default)
    ELSE IF d.default_factory THEN Holds(FactoryResult)
    ELSE IF config.implicit_default THEN ImplicitDefault(d.returns)
    ELSE Unset

\* _put_default(attrs, key, validator, vf, cls, context)
PutDefault_classlast(attrs, key, d, config, isDataclass) ==
    IF put(d, config).set THEN [attrs EXCEPT ![key] = put(d, config)]
    ELSE IF d.field = ClassValue THEN [attrs EXCEPT ![key] = Holds(d.field)]
    ELSE attrs

PutDefault(attrs, key, d, config, isDataclass) ==
    LET stored == put(d, config)
        after == IF stored.set THEN [attrs EXCEPT ![key] = stored] ELSE attrs
    IN IF d.field # MISSING /\ d.field # FactoryField
       THEN [attrs EXCEPT ![key] = Holds(d.field)]
       ELSE IF d.field # MISSING
       THEN IF isDataclass THEN after
            ELSE IF ~after[key].set THEN [after EXCEPT ![key] = Holds(None)]
            ELSE after
       ELSE after

\* The declarations explored: v() refuses a default together with a
\* default_factory; the return type varies where put() reads it.
Declarations ==
    {d \in [field : {MISSING, FactoryField, ClassValue},
            default : {MISSING, ExplicitDefault},
            default_factory : BOOLEAN,
            returns : DictReturnTypes] :
        /\ ~(d.default # MISSING /\ d.default_factory)
        /\ (d.default # MISSING \/ d.default_factory) => d.returns = "int"}

\* Validators of the fields: v(...), +v(...), v(...) / None, ~v(...), with a
\* scalar or an iterable converter and at most one verifier.
DictRequirements ==
    {Requirement("SKIP", "CONTEXTUAL", "CONTEXTUAL"),
     Requirement("FAIL", "REQUIRES", "REQUIRES"),
     Requirement("SKIP", "CONTINUE", "CONTEXTUAL")}

DictValidators ==
    {v \in [requirement : DictRequirements,
            converter : {[name |-> "conv", is_iter |-> ci] : ci \in BOOLEAN},
            verifiers : {<<>>, <<[name |-> VerName(1), is_iter |-> FALSE]>>},
            silent : {FALSE}] :
        /\ v.converter.is_iter => v.verifiers = <<>>
        /\ v.requirement.null = "CONTINUE" => ~v.converter.is_iter /\ v.verifiers = <<>>}

\* The value the accessor yields for the field's key (VALUE_MISSING when the
\* key is not in the input).
DictValues == {VALUE_MISSING, None, One, ListOf(<<1>>)}

DictConfigs ==
    {[DefaultConfig EXCEPT !.join_on_fail = j, !.implicit_default = im] :
        j \in BOOLEAN, im \in BOOLEAN}

\* context = context or ValidationContext(); accessor = dict_like(values);
\* attributes = {}; failures = CompositeValidationFailure()
DictStart ==
    /\ pc = "idle"
    /\ \E c \in DictConfigs, dc \in BOOLEAN :
        /\ cfg' = c
        /\ dataclass' = dc
    /\ pc' = "loop"
    /\ attributes' = [k \in Fields |-> Unset]
    /\ failures' = <<>>
    /\ UNCHANGED <<validator, val, gate, couts, cur, vidx, vouts, stop, calls, result,
                   field, decl>>

\* for k, vf in validators.items(): v = vf.create(cxt);
\* val = accessor.get(values, key, v.accept_list) if key in exsiting_keys
\*       else VALUE_MISSING
FetchField ==
    /\ pc \in {"loop", "merged"}
    /\ field < NumFields
    /\ field' = field + 1
    /\ \E v \in DictValidators, x \in DictValues :
        /\ validator' = v
        /\ val' = x
    /\ pc' = "gate"
    /\ gate' = NoGate
    /\ couts' = <<>>
    /\ cur' = None
    /\ vidx' = 0
    /\ vouts' = <<>>
    /\ stop' = NoFailure
    /\ calls' = <<>>
    /\ result' = NoResult
    /\ decl' = NoDecl
    /\ UNCHANGED <<cfg, dataclass, attributes, failures>>

\* if validated is not None: attributes[k] = validated
Written(attrs, key, validated) ==
    IF validated # None THEN [attrs EXCEPT ![key] = Holds(validated)] ELSE attrs

\* validated, f, use_alt = v.validate(val, cxt) has returned: merge it.
Merge ==
    /\ pc = "validated"
    /\ field >= 1
    /\ pc' = "merged"
    /\ failures' = IF result.failure # NoFailure
                   THEN add(failures, FieldName(field), result.failure)
                   ELSE failures
    /\ IF result.use_alt
       THEN \E d \in Declarations :
                /\ decl' = d
                /\ attributes' = PutDefault(Written(attributes, field, result.value),
                                            field, d, cfg, dataclass)
       ELSE /\ attributes' = Written(attributes, field, result.value)
            /\ UNCHANGED decl
    /\ UNCHANGED <<cfg, validator, val, gate, couts, cur, vidx, vouts, stop, calls, result,
                   field, dataclass>>

NextDict ==
    \/ DictStart /\ UNCHANGED <<rvars, xvars>>
    \/ FetchField /\ UNCHANGED <<rvars, xvars>>
    \/ Gate /\ UNCHANGED <<rvars, dvars, xvars>>
    \/ Convert /\ UNCHANGED <<rvars, dvars, xvars>>
    \/ Verify /\ UNCHANGED <<rvars, dvars, xvars>>
    \/ Merge /\ UNCHANGED <<rvars, xvars>>
SpecDict == Init /\ [][NextDict]_vars

\* -------------------------------------------------------------- remainders
\* validate_dict harvesting the keys no validator consumed (api.py), on one
\* context that is handed to validate_dict again and again.
\*
\* The class:   class D: d = v(int)
\*              class C: a = v(int, alias=...) ; b = v(D)
\* A value of the input is a string or, for the nested object, a dict of
\* strings; a dict is the set of its <<key, value>> items.
LeafV(s) == [kind |-> "str", s |-> s, d |-> {}]
DictV(d) == [kind |-> "dict", s |-> "", d |-> d]

KeysOf(items) == {e[1] : e \in items}
ValueOf(items, k) == (CHOOSE e \in items : e[1] = k)[2]

\* cls.__annotations__ as parse_validators reads them: name and alias.
ClassC(rc) == {[name |-> "a", alias |-> rc.alias], [name |-> "b", alias |-> ""]}
ClassD == {[name |-> "d", alias |-> ""]}

\* context.config.key_filter or (lambda x: x)
key_filter(rc, k) == IF rc.key_filter = "underscore" THEN k \o "_" ELSE k

\* key = key_filter(vf.alias or k)
EffectiveKey(rc, f) == key_filter(rc, IF f.alias # "" THEN f.alias ELSE f.name)

\* validated_keys after the field loop
validated_keys(rc, cls) == {EffectiveKey(rc, f) : f \in cls}

\* The keys of the input that the loop over accessor.keys(values) records.
Leftovers(rc, cls, items) == {k \in KeysOf(items) : k \notin validated_keys(rc, cls)}

\* holder[k] = values[k] on a dict: the key is bound to the new value.
HolderPut_clear(m, entries) == entries

HolderPut(m, entries) ==
    {e \in m : \A n \in entries : n[1] # e[1]} \cup entries

Harvest_root(rc, maps, path, cls, items) ==
    [maps EXCEPT ![<<>>] = HolderPut(@,
        {<<(<<k>>), ValueOf(items, k)>> : k \in Leftovers(rc, cls, items)})]

\* The remainder loop of validate_dict run with the context at `path`.
\* A remainder map is the set of its <<key path, value>> entries: the key
\* path has one key, or, in the shared context, the keys of the nested
\* dicts _holder_for_path(context.remainders, context.path + k) walks
\* through followed by the key.
Harvest(rc, maps, path, cls, items) ==
    IF rc.share_context
    THEN [maps EXCEPT ![<<>>] = HolderPut(@,
            {<<path \o <<k>>, ValueOf(items, k)>> : k \in Leftovers(rc, cls, items)})]
    ELSE [maps EXCEPT ![path] = HolderPut(@,
            {<<(<<k>>), ValueOf(items, k)>> : k \in Leftovers(rc, cls, items)})]

\* The items of the nested dict, as values.
NestedItems(value) == {<<e[1], LeafV(e[2])>> : e \in value.d}

\* The converter of b: validate_dict(D, v, cxt).or_else(throw) with the
\* context of the field. A value that is not a dict is malformed and
\* leaves no remainder.
ValidateNested(rc, maps, value, ignore) ==
    IF value.kind = "dict" /\ ~ignore
    THEN Harvest(rc, maps, <<"b">>, ClassD, NestedItems(value))
    ELSE maps

\* The maps after the field loop of validate_dict(C, input, context): the
\* nested object is validated when the input has the effective key of b.
AfterFields(rc, maps, items, ignore) ==
    LET bkey == EffectiveKey(rc, [name |-> "b", alias |-> ""]) IN
    IF bkey \in KeysOf(items)
    THEN ValidateNested(rc, maps, ValueOf(items, bkey), ignore)
    ELSE maps

\* -- inputs
NestedDicts ==
    {DictV({<<"d", "1">>}), DictV({<<"e", "y">>}), DictV({<<"d", "1">>, <<"e", "z">>})}

RootInputs ==
    {a \cup x \cup b \cup bf :
        a \in {{}, {<<"a", LeafV("1")>>}},
        x \in {{}, {<<"x", LeafV("y")>>}, {<<"x", LeafV("z")>>}},
        b \in {{}, {<<"b", LeafV("1")>>}} \cup {{<<"b", n>>} : n \in NestedDicts},
        bf \in {{}, {<<"b_", DictV({<<"d", "1">>, <<"e", "y">>})>>}}}

\* dict_like(values): a dict, a dataclass instance, or neither.
InputKinds == {"dict", "dataclass", "other"}

\* An accessor that takes whatever it is given for a dict.
dict_like_any(kind) == IF kind = "dataclass" THEN "ByDataclass" ELSE "ByDict"

\* dict_like(values): the accessor, or ValueError
dict_like(kind) ==
    CASE kind = "dict" -> "ByDict"
      [] kind = "dataclass" -> "ByDataclass"
      [] OTHER -> "ValueError"

\* The failures of the fields of C: a is taken as it is, b is validated as a
\* D by validate_dict(D, v, cxt).or_else(throw), which raises the malformed
\* failure of a value that is not a dict.
FieldFailures(rc, items) ==
    LET bkey == EffectiveKey(rc, [name |-> "b", alias |-> ""]) IN
    IF bkey \in KeysOf(items) /\ ValueOf(items, bkey).kind # "dict"
    THEN CompositeValidationFailure(add(<<>>, Key(<<"b">>), MalformedFailure))
    ELSE CompositeValidationFailure(<<>>)

\* The context and the class: share_context, key_filter and the alias of a.
\* The key filter is combined with isolated contexts only.
RemContexts ==
    {[share_context |-> s, key_filter |-> f, alias |-> al, created |-> TRUE] :
        s \in BOOLEAN, f \in {"none", "underscore"}, al \in {"", "x"}}
    \ {rc \in [share_context : {TRUE}, key_filter : {"underscore"},
               alias : {"", "x"}, created : {TRUE}] : TRUE}

\* context = ValidationContext().configure(share_context=..., key_filter=...)
CreateContext ==
    /\ ~rctx.created
    /\ \E rc \in RemContexts : rctx' = rc
    /\ UNCHANGED <<rem, prev_rem, last>>

\* validate_dict(C, values, context) with context.configure(ignore_remainders=...)
ValidateDictRemainders ==
    /\ rctx.created
    /\ \E kind \in InputKinds, items \in RootInputs, ignore \in BOOLEAN :
        /\ kind = "other" => items = {} /\ ~ignore
        /\ kind = "dataclass" => "b_" \notin KeysOf(items) /\ "a" \notin KeysOf(items)
        /\ LET fields == AfterFields(rctx, rem, items, ignore)
               left == Leftovers(rctx, ClassC(rctx), items)
               outcome == IF dict_like(kind) = "ValueError" THEN "malformed"
                          ELSE IF ~ignore /\ kind = "dataclass" /\ left # {}
                          THEN "raised" ELSE "returned"
           IN /\ last' = [kind |-> kind, items |-> items,
                          ignore_remainders |-> ignore, outcome |-> outcome,
                          validated |-> IF outcome = "malformed" THEN {}
                                        ELSE {f.name : f \in ClassC(rctx)},
                          posthoc |-> outcome = "returned",
                          value |-> CASE outcome = "malformed" -> "None"
                                      [] outcome = "returned" -> "instance"
                                      [] OTHER -> "",
                          failures |-> CASE outcome = "malformed" -> MalformedFailure
                                         [] outcome = "returned" -> FieldFailures(rctx, items)
                                         [] OTHER -> NoFailure]
              /\ prev_rem' = rem
              /\ rem' = IF outcome = "malformed" THEN rem
                        ELSE IF ignore \/ outcome = "raised" THEN fields
                        ELSE Harvest(rctx, fields, <<>>, ClassC(rctx), items)
    /\ UNCHANGED rctx

InitRem == Init
NextRem ==
    \/ CreateContext /\ UNCHANGED <<vvars, rvars, dvars, pvars, tvars, cvars, gvars, fvars, hvars, kvars, wvars, nvars>>
    \/ ValidateDictRemainders /\ UNCHANGED <<vvars, rvars, dvars, pvars, tvars, cvars, gvars, fvars, hvars, kvars, wvars, nvars>>
SpecRem == InitRem /\ [][NextRem]_vars

\* ------------------------------------------------------------------ paths
\* ValidationPath.of(str(p)) for a path p
RenderThenParse ==
    /\ path_call.op = "none"
    /\ \E p \in Paths :
        /\ path_call' = [op |-> "of(str(p))", path |-> p, text |-> <<>>]
        /\ path_text' = at(p)
        /\ path_path' = of(at(p))

\* str(ValidationPath.of(s)) for a text s
ParseThenRender ==
    /\ path_call.op = "none"
    /\ \E s \in WellFormedTexts :
        /\ path_call' = [op |-> "str(of(s))", path |-> <<>>, text |-> s]
        /\ path_path' = of(s)
        /\ path_text' = at(of(s))

InitPath == Init
NextPath ==
    \/ RenderThenParse /\ UNCHANGED <<vvars, rvars, dvars, mvars, tvars, cvars, gvars, fvars, hvars, kvars, wvars, nvars>>
    \/ ParseThenRender /\ UNCHANGED <<vvars, rvars, dvars, mvars, tvars, cvars, gvars, fvars, hvars, kvars, wvars, nvars>>
SpecPath == InitPath /\ [][NextPath]_vars

\* ------------------------------------------------------------------- trees
\* node.add(key, f), node being the root or a composite below it
AddFailure ==
    /\ query.op = "none"
    /\ adds < MaxAdds
    /\ \E path \in KeySeqs, key \in TreeKeys, f \in TreeValues(adds + 1) :
        /\ Len(path) < MaxDepth
        /\ IsComposite(NodeAt(tree, path))
        /\ tree' = AddAt(tree, path, key, f)
    /\ adds' = adds + 1
    /\ UNCHANGED <<query, answer>>

\* failures[k1]...[kn] and failures[str(ValidationPath([k1, ..., kn]))]
LookUp ==
    /\ query.op = "none"
    /\ \E ks \in KeySeqs :
        /\ IsFailure(Chained(tree, ks))
        /\ query' = [op |-> "getitem", keys |-> ks, allows |-> {}]
        /\ answer' = [NoAnswer EXCEPT !.chained = Chained(tree, ks),
                                      !.bytext = GetItemText(tree, at(ks))]
    /\ UNCHANGED <<tree, adds>>

\* failures[s] and `s in failures` for the text s of any keys and indexes,
\* with what the tree holds there
AskContains ==
    /\ query.op = "none"
    /\ \E ks \in KeySeqs \ {<<>>} :
        /\ query' = [op |-> "contains", keys |-> ks, allows |-> {}]
        /\ answer' = [NoAnswer EXCEPT !.bytext = GetItemText(tree, at(ks)),
                                      !.contained = ContainsText(tree, at(ks)),
                                      !.held = NodeAt(tree, ks)]
    /\ UNCHANGED <<tree, adds>>

\* list(failures)
Iterate ==
    /\ query.op = "none"
    /\ query' = [op |-> "iter", keys |-> <<>>, allows |-> {}]
    /\ answer' = [NoAnswer EXCEPT !.pairs = Iter(tree, <<>>)]
    /\ UNCHANGED <<tree, adds>>

\* ValidationResult(value, failures, context).or_else(handler, allows)
CallOrElse ==
    /\ query.op = "none"
    /\ \E al \in AllowedLists :
        /\ query' = [op |-> "or_else", keys |-> <<>>, allows |-> al]
        /\ answer' = [NoAnswer EXCEPT !.returned = OrElse(tree, al)]
    /\ UNCHANGED <<tree, adds>>

InitTree == Init
NextTree ==
    \/ AddFailure /\ UNCHANGED <<vvars, rvars, dvars, mvars, pvars, cvars, gvars, fvars, hvars, kvars, wvars, nvars>>
    \/ LookUp /\ UNCHANGED <<vvars, rvars, dvars, mvars, pvars, cvars, gvars, fvars, hvars, kvars, wvars, nvars>>
    \/ AskContains /\ UNCHANGED <<vvars, rvars, dvars, mvars, pvars, cvars, gvars, fvars, hvars, kvars, wvars, nvars>>
    \/ Iterate /\ UNCHANGED <<vvars, rvars, dvars, mvars, pvars, cvars, gvars, fvars, hvars, kvars, wvars, nvars>>
    \/ CallOrElse /\ UNCHANGED <<vvars, rvars, dvars, mvars, pvars, cvars, gvars, fvars, hvars, kvars, wvars, nvars>>
SpecTree == InitTree /\ [][NextTree]_vars

\* ------------------------------------------------- configuration in context
\* context[key] with share_context off: a child context whose Stack derives
\* the parent's.  (With share_context on the context itself is returned.)
\* The contexts made form one line of descent: root, child, grandchild.
GetChild ==
    /\ Len(stacks) < MaxContexts
    /\ stacks' = Append(stacks, derive(Len(stacks)))
    /\ exited' = NoLeave
    /\ UNCHANGED scopes

\* context.configure(name=value)
Configure ==
    /\ \E i \in 1..Len(stacks), key \in ConfiguredKeys :
        /\ ~Has(stacks[i].contextual, key)
        /\ stacks' = [stacks EXCEPT ![i] = set(@, key, ExplicitValues[i])]
    /\ exited' = NoLeave
    /\ UNCHANGED scopes

\* with context.on(t): -- entering the block
EnterOn ==
    /\ Len(scopes) < MaxScopes
    /\ \E i \in 1..Len(stacks), t \in ContextTypes :
        /\ stacks' = [stacks EXCEPT ![i] = on(@, t)]
        /\ scopes' = Append(scopes, [ctx |-> i, type |-> t, before |-> stacks[i].stack])
    /\ exited' = NoLeave

\* with context.on(t): -- leaving the innermost block, by its end, a return
\* or an exception: Stack.__exit__
LeaveOn ==
    /\ Len(scopes) > 0
    /\ LET top == scopes[Len(scopes)]
           restored == [stacks EXCEPT ![top.ctx].stack = top.before]
       IN /\ stacks' = [stacks EXCEPT ![top.ctx] = pop(@)]
          /\ exited' = [ctx |-> top.ctx, type |-> top.type, depth |-> Len(scopes),
                      expected |-> Effective(restored, top.ctx),
                      actual |-> Effective(stacks', top.ctx)]
    /\ scopes' = SubSeq(scopes, 1, Len(scopes) - 1)

InitCtx == Init
NextCtx ==
    \/ GetChild /\ UNCHANGED <<vvars, rvars, dvars, mvars, pvars, tvars, gvars, fvars, hvars, kvars, wvars, nvars>>
    \/ Configure /\ UNCHANGED <<vvars, rvars, dvars, mvars, pvars, tvars, gvars, fvars, hvars, kvars, wvars, nvars>>
    \/ EnterOn /\ UNCHANGED <<vvars, rvars, dvars, mvars, pvars, tvars, gvars, fvars, hvars, kvars, wvars, nvars>>
    \/ LeaveOn /\ UNCHANGED <<vvars, rvars, dvars, mvars, pvars, tvars, gvars, fvars, hvars, kvars, wvars, nvars>>
SpecCtx == InitCtx /\ [][NextCtx]_vars

\* ------------------------------------------------------ the global default
\* with default_config() as cfg: -- entering the block
DefaultEnter ==
    /\ Len(configs) < MaxObjects
    /\ configs' = contextual_enter(configs, ambient)
    /\ ambient' = Len(configs')
    /\ withs' = Append(withs, [self |-> ambient, derived |-> ambient',
                                at_entry |-> configs[ambient]])
    /\ gexit' = [op |-> "enter", self |-> ambient, at_entry |-> configs[ambient],
                 depth |-> Len(withs'), inside |-> configs'[ambient'], after |-> NoSettings]

\* default_config().key = value, or cfg.key = value on the object bound by
\* the innermost block
DefaultSet ==
    /\ \E key \in SettingKeys, value \in ModifiedValues :
        /\ configs[ambient][key] # value
        /\ configs' = [configs EXCEPT ![ambient][key] = value]
    /\ gexit' = NoExit
    /\ UNCHANGED <<ambient, withs>>

\* leaving the innermost block
DefaultExit ==
    /\ Len(withs) > 0
    /\ LET top == withs[Len(withs)] IN
        /\ ambient' = contextual_exit(top.self, ambient)
        /\ gexit' = [op |-> "exit", self |-> top.self, at_entry |-> top.at_entry, depth |-> Len(withs),
                     inside |-> configs[ambient], after |-> configs[ambient']]
    /\ withs' = SubSeq(withs, 1, Len(withs) - 1)
    /\ UNCHANGED configs

InitDefault == Init
NextDefault ==
    \/ DefaultEnter /\ UNCHANGED <<vvars, rvars, dvars, mvars, pvars, tvars, cvars, fvars, hvars, kvars, wvars, nvars>>
    \/ DefaultSet /\ UNCHANGED <<vvars, rvars, dvars, mvars, pvars, tvars, cvars, fvars, hvars, kvars, wvars, nvars>>
    \/ DefaultExit /\ UNCHANGED <<vvars, rvars, dvars, mvars, pvars, tvars, cvars, fvars, hvars, kvars, wvars, nvars>>
SpecDefault == InitDefault /\ [][NextDefault]_vars

\* ------------------------------------------------- a family of contexts
\* context[key] with share_context off, on any context made so far: the
\* root gets children, the children get siblings and children of their own.
GetChildOf ==
    /\ Len(stacks) < MaxFamily
    /\ \E parent \in 1..Len(stacks) : stacks' = Append(stacks, derive(parent))
    /\ configured' = NoConfigure
    /\ UNCHANGED <<scopes, exited, gvars>>

\* context.configure(name=value), with the settings read on every context
\* and on default_config() before and after the call
ConfigureOn ==
    /\ UNCHANGED <<scopes, exited, gvars>>
    /\ \E i \in 1..Len(stacks), key \in ConfiguredKeys :
        /\ ~Has(stacks[i].contextual, key)
        /\ stacks' = configure(stacks, i, key, ExplicitValues[i])
        /\ configured' = [ctx |-> i,
                          before |-> [j \in 1..Len(stacks) |-> Effective(stacks, j)],
                          after |-> [j \in 1..Len(stacks) |-> Effective(stacks', j)],
                          default_before |-> configs[ambient],
                          default_after |-> configs'[ambient']]

\* with context.on(t): one block, entered while contexts are made and
\* configured
EnterFamily ==
    /\ Len(scopes) = 0
    /\ EnterOn
    /\ configured' = NoConfigure
    /\ UNCHANGED gvars

InitFamily == Init
NextFamily ==
    \/ GetChildOf /\ UNCHANGED <<vvars, rvars, dvars, mvars, pvars, tvars, hvars, kvars, wvars, nvars>>
    \/ ConfigureOn /\ UNCHANGED <<vvars, rvars, dvars, mvars, pvars, tvars, hvars, kvars, wvars, nvars>>
    \/ EnterFamily /\ UNCHANGED <<vvars, rvars, dvars, mvars, pvars, tvars, hvars, kvars, wvars, nvars>>
SpecFamily == InitFamily /\ [][NextFamily]_vars

\* -------------------------------------------------- post-hoc verification
\* validate_dict after the loop over the fields: `failures` holds the fields
\* that failed, and fetch_verifier_methods(cls, failures) is called.
FetchMethods ==
    /\ hidx = 0
    /\ \E n \in 1..MaxMethods, failed \in SUBSET DependencyFields :
        /\ hcls' \in [1..n -> Dependencies]
        /\ hkeys' = failed
        /\ hfail' = failed
    /\ hidx' = 1
    /\ hran' = {}

\* One turn of `for m in fetch_verifier_methods(cls, failures)`: a method of
\* the list is invoked with the instance, and failures.add(m.name, f) if it
\* does not hold.
InvokeMethod ==
    /\ hidx \in 1..Len(hcls)
    /\ hidx' = hidx + 1
    /\ UNCHANGED <<hcls, hkeys>>
    /\ IF Fetched(hcls[hidx], hkeys, hfail)
       THEN /\ hran' = hran \cup {hidx}
            /\ \E holds \in BOOLEAN :
                hfail' = IF holds THEN hfail ELSE hfail \cup {MethodNames[hidx]}
       ELSE UNCHANGED <<hran, hfail>>

InitMethods == Init
NextMethods ==
    \/ FetchMethods /\ UNCHANGED <<vvars, rvars, dvars, mvars, pvars, tvars, cvars, gvars, fvars, kvars, wvars, nvars>>
    \/ InvokeMethod /\ UNCHANGED <<vvars, rvars, dvars, mvars, pvars, tvars, cvars, gvars, fvars, kvars, wvars, nvars>>
SpecMethods == InitMethods /\ [][NextMethods]_vars

\* -------------------------------------------------- configuration keys given
\* One ValidationConfiguration, one ValidationContext and one class, each
\* handed keyword settings that may hold a key ValidationConfiguration has
\* no field for.
KeySettings == [AllKeys -> {NotSet, "k1"}] \ {NoKeys}

KeyCall(op, settings, raised, derived) ==
    [op |-> op, settings |-> settings, raised |-> raised, result |-> derived,
     before |-> [conf |-> kconf, ctx |-> kctx, reg |-> kreg]]

\* config.derive(**settings)
DeriveKeys ==
    /\ \E settings \in KeySettings :
        LET r == ValidationConfiguration_derive(kconf, settings) IN
        klast' = KeyCall("derive", settings, r.raised, r.result)
    /\ UNCHANGED <<kconf, kctx, kreg>>

\* config.set(**settings)
SetKeys ==
    /\ \E settings \in KeySettings :
        LET r == ValidationConfiguration_set(kconf, settings) IN
        /\ klast' = KeyCall("set", settings, r.raised, NoSettings)
        /\ kconf' = r.result
    /\ UNCHANGED <<kctx, kreg>>

\* context.configure(**settings)
ConfigureKeys ==
    /\ \E settings \in KeySettings :
        /\ klast' = KeyCall("configure", settings, FALSE, NoSettings)
        /\ kctx' = Stack_set(kctx, settings)
    /\ UNCHANGED <<kconf, kreg>>

\* @validatable(**settings) on a class
ValidatableKeys ==
    /\ \E settings \in KeySettings :
        /\ klast' = KeyCall("validatable", settings, FALSE, NoSettings)
        /\ kreg' = TypedConfiguration_put(kreg, settings)
    /\ UNCHANGED <<kconf, kctx>>

InitKeys == Init
NextKeys ==
    \/ DeriveKeys /\ UNCHANGED <<vvars, rvars, dvars, mvars, pvars, tvars, cvars, gvars, fvars, hvars, wvars, nvars>>
    \/ SetKeys /\ UNCHANGED <<vvars, rvars, dvars, mvars, pvars, tvars, cvars, gvars, fvars, hvars, wvars, nvars>>
    \/ ConfigureKeys /\ UNCHANGED <<vvars, rvars, dvars, mvars, pvars, tvars, cvars, gvars, fvars, hvars, wvars, nvars>>
    \/ ValidatableKeys /\ UNCHANGED <<vvars, rvars, dvars, mvars, pvars, tvars, cvars, gvars, fvars, hvars, wvars, nvars>>
SpecKeys == InitKeys /\ [][NextKeys]_vars

\* ------------------------------------------------------- paths of contexts
\* validate_dict(C, values, context) followed block by block: the blocks
\* that are open are wframes, innermost last.  A frame of a type is
\* `with context.on(t)`, a frame of a field or an element is
\* `with context[key, True] as cxt`; done counts what the block has
\* already run inside it.
Frame(kind, ctx, key, type, fkind) ==
    [kind |-> kind, ctx |-> ctx, key |-> key, type |-> type, fkind |-> fkind, done |-> 0]

\* The field names and indices of the open blocks, outermost first.
RECURSIVE Location(_)
Location(frames) ==
    IF Len(frames) = 0 THEN <<>>
    ELSE IF Head(frames).kind = "type" THEN Location(Tail(frames))
    ELSE <<Head(frames).key>> \o Location(Tail(frames))

Called(cs, ctx, frames) == [op |-> "call", path |-> cs[ctx].path, location |-> Location(frames)]

\* typed_config().put(D, {"share_context": True})
RegisterShared ==
    /\ wphase = "setup"
    /\ "D" \notin wreg
    /\ wreg' = wreg \cup {"D"}
    /\ UNCHANGED <<wctx, wframes, wseen, wphase, welems>>

\* context.configure(share_context=True)
ConfigureRootShared ==
    /\ wphase = "setup"
    /\ ~Has(wctx[1].contextual, "share_context")
    /\ wctx' = [wctx EXCEPT ![1].contextual = Share]
    /\ UNCHANGED <<wreg, wframes, wseen, wphase, welems>>

\* context["b"].configure(share_context=True)
ConfigureChildShared ==
    /\ wphase = "setup"
    /\ LET r == getitem(wctx, 1, Key(<<"b">>), FALSE) IN
        /\ ~Has(r.cs[r.ctx].contextual, "share_context")
        /\ wctx' = [r.cs EXCEPT ![r.ctx].contextual = Share]
    /\ UNCHANGED <<wreg, wframes, wseen, wphase, welems>>

\* validate_dict(C, values, context): with context.on(C)
BeginWalk ==
    /\ wphase = "setup"
    /\ wphase' = "run"
    /\ \E n \in 0..MaxElems : welems' = n
    /\ wctx' = [wctx EXCEPT ![1] = on_registered(@, "C", wreg)]
    /\ wframes' = <<Frame("type", 1, Key(<<>>), "C", "")>>
    /\ wseen' = NoCall
    /\ UNCHANGED wreg

\* with context[k, True] as cxt: the next field of the class; the converter
\* of a field that is not iterable is called with cxt
EnterField ==
    /\ wphase = "run"
    /\ LET top == wframes[Len(wframes)] IN
        /\ top.kind = "type"
        /\ top.done < Len(WalkFields(top.type))
        /\ LET f == WalkFields(top.type)[top.done + 1]
               r == getitem(wctx, top.ctx, f.key, TRUE)
               frames == Append(wframes, Frame("field", r.ctx, f.key, "", f.kind))
           IN /\ wctx' = r.cs
              /\ wframes' = frames
              /\ wseen' = IF f.kind = "iterable" THEN NoCall ELSE Called(r.cs, r.ctx, frames)
    /\ UNCHANGED <<wreg, wphase, welems>>

\* with context[i, True] as c: element i of an iterable field, once for the
\* converter and once more for a verifier
EnterElement ==
    /\ wphase = "run"
    /\ LET top == wframes[Len(wframes)] IN
        /\ top.kind = "field" /\ top.fkind = "iterable"
        /\ top.done < 2 * welems
        /\ LET r == getitem(wctx, top.ctx, Idx(top.done % welems), TRUE)
               frames == Append(wframes, Frame("elem", r.ctx, Idx(top.done % welems), "", "scalar"))
           IN /\ wctx' = r.cs
              /\ wframes' = frames
              /\ wseen' = Called(r.cs, r.ctx, frames)
    /\ UNCHANGED <<wreg, wphase, welems>>

\* validate_dict(D, v, cxt) called by the converter of b: with cxt.on(D)
EnterNested ==
    /\ wphase = "run"
    /\ LET top == wframes[Len(wframes)] IN
        /\ top.kind = "field" /\ top.fkind = "nested" /\ top.done = 0
        /\ wctx' = [wctx EXCEPT ![top.ctx] = on_registered(@, "D", wreg)]
        /\ wframes' = Append(wframes, Frame("type", top.ctx, Key(<<>>), "D", ""))
    /\ wseen' = NoCall
    /\ UNCHANGED <<wreg, wphase, welems>>

\* The innermost block ends: Stack.__exit__ for a type,
\* ValidationContext.__exit__ for a field or an element.
LeaveBlock ==
    /\ wphase = "run"
    /\ LET n == Len(wframes)
           top == wframes[n]
           rest == SubSeq(wframes, 1, n - 1)
       IN /\ CASE top.kind = "type" -> top.done = Len(WalkFields(top.type))
                [] top.fkind = "iterable" -> top.done = 2 * welems
                [] top.fkind = "nested" -> top.done = 1
                [] OTHER -> TRUE
          /\ wctx' = IF top.kind = "type" THEN [wctx EXCEPT ![top.ctx] = pop(@)]
                     ELSE context_exit(wctx, top.ctx)
          /\ wframes' = IF n = 1 THEN rest ELSE [rest EXCEPT ![n - 1].done = @ + 1]
          /\ wphase' = IF n = 1 THEN "done" ELSE "run"
    /\ wseen' = NoCall
    /\ UNCHANGED <<wreg, welems>>

InitShare == Init
NextShare ==
    \/ RegisterShared /\ UNCHANGED <<vvars, rvars, dvars, mvars, pvars, tvars, cvars, gvars, fvars, hvars, kvars, nvars>>
    \/ ConfigureRootShared /\ UNCHANGED <<vvars, rvars, dvars, mvars, pvars, tvars, cvars, gvars, fvars, hvars, kvars, nvars>>
    \/ ConfigureChildShared /\ UNCHANGED <<vvars, rvars, dvars, mvars, pvars, tvars, cvars, gvars, fvars, hvars, kvars, nvars>>
    \/ BeginWalk /\ UNCHANGED <<vvars, rvars, dvars, mvars, pvars, tvars, cvars, gvars, fvars, hvars, kvars, nvars>>
    \/ EnterField /\ UNCHANGED <<vvars, rvars, dvars, mvars, pvars, tvars, cvars, gvars, fvars, hvars, kvars, nvars>>
    \/ EnterElement /\ UNCHANGED <<vvars, rvars, dvars, mvars, pvars, tvars, cvars, gvars, fvars, hvars, kvars, nvars>>
    \/ EnterNested /\ UNCHANGED <<vvars, rvars, dvars, mvars, pvars, tvars, cvars, gvars, fvars, hvars, kvars, nvars>>
    \/ LeaveBlock /\ UNCHANGED <<vvars, rvars, dvars, mvars, pvars, tvars, cvars, gvars, fvars, hvars, kvars, nvars>>
SpecShare == InitShare /\ [][NextShare]_vars

\* ------------------------------------------- root contexts and the default
\* The global default is changed, inside and outside one `with` block, and
\* settings are read on contexts made before and after.
ReadOf(op, key, value) == [op |-> op, key |-> key, value |-> value]

\* with default_config() as cfg: -- one block at a time
GlobalEnter ==
    /\ Len(withs) = 0
    /\ DefaultEnter
    /\ gread' = NoRead
    /\ UNCHANGED <<gctx, gholder>>

\* default_config().name = value
GlobalSet ==
    /\ \E key \in ConfiguredKeys, value \in ModifiedValues :
        /\ configs[ambient][key] # value
        /\ configs' = [configs EXCEPT ![ambient][key] = value]
    /\ gexit' = NoExit
    /\ gread' = NoRead
    /\ UNCHANGED <<ambient, withs, gctx, gholder>>

\* leaving the block
GlobalExit ==
    /\ DefaultExit
    /\ gread' = NoRead
    /\ UNCHANGED <<gctx, gholder>>

\* context = ValidationContext()
NewRootContext ==
    /\ Len(gctx) < MaxContexts
    /\ gctx' = Append(gctx, NewRoot(configs, ambient))
    /\ gread' = NoRead
    /\ UNCHANGED <<gvars, gholder>>

\* context.config.key on a context made earlier
ReadOnContext ==
    /\ \E i \in 1..Len(gctx), key \in ConfiguredKeys :
        gread' = ReadOf("context", key, RootGetattr(gctx[i], key))
    /\ UNCHANGED <<gvars, gctx, gholder>>

\* Requirement.validate(value) without a context:
\* context = context or ValidationContext.default()
RequirementWithout ==
    /\ gholder' = default(gholder, configs, ambient)
    /\ \E key \in ConfiguredKeys :
        gread' = ReadOf("default", key, RootGetattr(gholder'[1], key))
    /\ UNCHANGED <<gvars, gctx>>

\* validate_dict(cls, values) without a context:
\* context = context or ValidationContext()
ValidateDictWithout ==
    /\ \E key \in ConfiguredKeys :
        gread' = ReadOf("fresh", key, RootGetattr(NewRoot(configs, ambient), key))
    /\ UNCHANGED <<gvars, gctx, gholder>>

InitGlobal == Init
NextGlobal ==
    \/ GlobalEnter /\ UNCHANGED <<vvars, rvars, dvars, mvars, pvars, tvars, cvars, fvars, hvars, kvars, wvars>>
    \/ GlobalSet /\ UNCHANGED <<vvars, rvars, dvars, mvars, pvars, tvars, cvars, fvars, hvars, kvars, wvars>>
    \/ GlobalExit /\ UNCHANGED <<vvars, rvars, dvars, mvars, pvars, tvars, cvars, fvars, hvars, kvars, wvars>>
    \/ NewRootContext /\ UNCHANGED <<vvars, rvars, dvars, mvars, pvars, tvars, cvars, fvars, hvars, kvars, wvars>>
    \/ ReadOnContext /\ UNCHANGED <<vvars, rvars, dvars, mvars, pvars, tvars, cvars, fvars, hvars, kvars, wvars>>
    \/ RequirementWithout /\ UNCHANGED <<vvars, rvars, dvars, mvars, pvars, tvars, cvars, fvars, hvars, kvars, wvars>>
    \/ ValidateDictWithout /\ UNCHANGED <<vvars, rvars, dvars, mvars, pvars, tvars, cvars, fvars, hvars, kvars, wvars>>
SpecGlobal == InitGlobal /\ [][NextGlobal]_vars

\* ------------------------------------------------------------- claims: C1
\* The policy table of the requirement gate.
PolicyTable(policy, failure, skip, allow) ==
    [failure |-> IF policy = "FAIL" \/ (policy = "REQUIRES" /\ ~allow)
                 THEN failure ELSE NoFailure,
     cont |-> policy = "CONTINUE" \/ (policy = "CONTEXTUAL" /\ ~skip)]

NamedFailure(name) == CHOOSE f \in {MissingFailure, NullFailure, EmptyFailure} : f.name = name

BuiltinEmpty(value) ==
    value.type \in {"str", "bytes", "list", "set"} /\ value.items = <<>>

DeclaredEmpty(config, value) ==
    \E i \in 1..Len(config.empty_specs) :
        LET e == config.empty_specs[i] IN
        /\ e.t \in {"object", value.type}
        /\ IF e.callable THEN value \in e.holds ELSE e.holds = {value}

ReferenceTable(requirement, config, value, bySpecs) ==
    CASE value.type = "missing" ->
            PolicyTable(requirement.missing, NamedFailure("missing"), FALSE, FALSE)
      [] value.type = "none" ->
            PolicyTable(requirement.null, NamedFailure("null"),
                        config.skip_null, config.allow_null)
      [] OTHER ->
            IF BuiltinEmpty(value) \/ (bySpecs /\ DeclaredEmpty(config, value))
            THEN PolicyTable(requirement.empty, NamedFailure("empty"),
                             config.skip_empty, config.allow_empty)
            ELSE [failure |-> NoFailure, cont |-> TRUE]

Returned == pc \in {"validated", "merged"}
GateStopped == Returned /\ ~gate.cont
ConversionFailed == Returned /\ gate.cont /\ vidx = 0
VerificationFailed == Returned /\ vidx >= 1 /\ stop # NoFailure
Succeeded == Returned /\ vidx >= 1 /\ stop = NoFailure

\* Outcomes that are failures of one call.
FailedOutcomes == {"false", "abort", "fail", "raise"}

\* The positions (from 1) whose converter call failed, and the converted
\* element of any other position.
FailedAt(outs) == {i \in DOMAIN outs : outs[i] \in FailedOutcomes}

Converted(i) ==
    CASE couts[i] = "ok_same" -> val.items[i]
      [] couts[i] = "ok_new" -> NewAtom
      [] OTHER -> NoneAtom

PartialConverted ==
    ListOf([i \in DOMAIN couts |-> IF i \in FailedAt(couts) THEN NoneAtom ELSE Converted(i)])

CallsBy(who) == SelectSeq(calls, LAMBDA c : c.who = who)

\* C2: the gate runs first, then the converter, then the verifiers; a gate
\* that does not continue returns (null, the gate's failure or null, true)
\* with no converter or verifier call made, and after a failed conversion no
\* verifier is called.
C2_PhaseOrder ==
    /\ pc \notin {"idle", "gate"} => gate = RequirementValidate(validator.requirement, val, cfg)
    /\ calls # <<>> => gate.cont
    /\ GateStopped =>
        /\ calls = <<>>
        /\ result.value = None
        /\ result.use_alt
        /\ result.failure = IF validator.silent THEN NoFailure ELSE gate.failure
    /\ \A j, k \in DOMAIN calls :
        j < k =>
            /\ calls[j].who = "verifier" => calls[k].who = "verifier"
            /\ (calls[j].who = "converter" /\ calls[j].out \in FailedOutcomes)
                    => calls[k].who = "converter"
    /\ ConversionFailed => CallsBy("verifier") = <<>>

C2_Witness ==
    /\ GateStopped
    /\ val = None
    /\ gate.failure = NullFailure
    /\ Len(validator.verifiers) = 2
    /\ result = [value |-> None, failure |-> NullFailure, use_alt |-> TRUE]

\* The triple returned on a conversion failure, `alt` being the use_alt flag
\* of the case without a partial list.
ConversionFailureTriple(alt) ==
    ConversionFailed =>
        /\ stop # NoFailure
        /\ result.failure = IF validator.silent THEN NoFailure ELSE stop
        /\ IF validator.converter.is_iter /\ ~cfg.join_on_fail
           THEN result.value = PartialConverted /\ ~result.use_alt
           ELSE result.value = None /\ result.use_alt = alt

\* C3 (as stated): a conversion failure returns (null, failure, false) for a
\* scalar converter or under join_on_fail = true, and (partial list,
\* failure, false) for an iterable converter under join_on_fail = false.
C3_UseAltFalse == ConversionFailureTriple(FALSE)

\* C3 (amended): a conversion failure returns (null, failure, true) for a
\* scalar converter or under join_on_fail = true, and (partial list,
\* failure, false) for an iterable converter under join_on_fail = false.
C3_ConversionFailure == ConversionFailureTriple(TRUE)

C3_Witness ==
    /\ ConversionFailed
    /\ ~validator.converter.is_iter
    /\ ~validator.silent
    /\ couts = <<"raise">>
    /\ result = [value |-> None, failure |-> ConversionFailure(ExcMsg, validator.converter),
                 use_alt |-> TRUE]

\* C4: a non-null failure comes with a non-null value only under
\* join_on_fail = false in iterable mode, and then the value is a list of the
\* input's length holding null at the failed positions and the converted or
\* verified element at every other position.
C4_ValueOrFailure ==
    (Returned /\ result.failure # NoFailure /\ result.value # None) =>
        LET byConverter == vidx = 0
            callable == IF byConverter THEN validator.converter ELSE validator.verifiers[vidx]
            outs == IF byConverter THEN couts ELSE vouts
        IN /\ ~cfg.join_on_fail
           /\ callable.is_iter
           /\ result.value.type = "list"
           /\ Len(result.value.items) = Len(val.items)
           /\ Keys(result.failure) = {i - 1 : i \in FailedAt(outs)}
           /\ \A i \in 1..Len(val.items) :
                result.value.items[i] =
                    IF i \in FailedAt(outs) THEN NoneAtom
                    ELSE IF byConverter THEN Converted(i) ELSE cur.items[i]

C4_Witness ==
    /\ VerificationFailed
    /\ ~cfg.join_on_fail
    /\ vouts = <<"true", "false">>
    /\ result.value = ListOf(<<1, NoneAtom>>)
    /\ Keys(result.failure) = {1}

\* The failure verifier `verifier` makes of one call's outcome.
OwnFailure(verifier, out, f) ==
    CASE out = "fail" -> f = DomainFailure
      [] out = "false" ->
            f = ValidationFailure("VerificationFailure", verifier.name,
                                  "Verification by " \o verifier.name \o " failed.",
                                  verifier.name)
      [] OTHER -> f.cls = "VerificationFailure" /\ f.owner = verifier.name

\* C5: verifiers are called in declaration order on the converted value,
\* the first one that fails ends the run, its failure is the failure
\* returned, and no verifier declared after it is called.
C5_VerifierOrder ==
    /\ \A j, k \in DOMAIN calls :
        (j < k /\ calls[j].who = "verifier") =>
            /\ calls[j].n <= calls[k].n
            /\ calls[j].out # "true" => calls[k].n = calls[j].n
    /\ \A k \in DOMAIN calls :
        calls[k].who = "verifier" =>
            /\ calls[k].n \in 1..Len(validator.verifiers)
            /\ calls[k].n <= vidx
            /\ calls[k].arg = IF validator.verifiers[calls[k].n].is_iter
                              THEN ElemValue(cur, calls[k].i + 1) ELSE cur
            /\ \A m \in 1..(calls[k].n - 1) :
                validator.verifiers[m].is_iter \/ \E j \in 1..(k - 1) : calls[j].n = m
    /\ VerificationFailed =>
        LET verifier == validator.verifiers[vidx] IN
        /\ result.failure = IF validator.silent THEN NoFailure ELSE stop
        /\ IF verifier.is_iter
           THEN /\ Keys(stop) = {i - 1 : i \in FailedAt(vouts)}
                /\ \A e \in DOMAIN stop.items :
                    OwnFailure(verifier, vouts[stop.items[e].key + 1], stop.items[e].f)
           ELSE OwnFailure(verifier, vouts[1], stop)
    /\ Succeeded =>
        /\ vidx = Len(validator.verifiers) + 1
        /\ \A k \in DOMAIN calls : calls[k].who = "verifier" => calls[k].out = "true"

C5_Witness ==
    /\ VerificationFailed
    /\ Len(validator.verifiers) = 2
    /\ vidx = 1
    /\ ~validator.verifiers[1].is_iter
    /\ result.failure.cls = "VerificationFailure"
    /\ result.failure.msg = "Verification by gt failed."
    /\ Len(CallsBy("verifier")) = 1

\* What the validator of the finished call returns with `silent` unset.
NonSilentReturn ==
    LET ns == [validator EXCEPT !.silent = FALSE] IN
    IF ~gate.cont THEN GateReturn(ns, gate)
    ELSE IF vidx = 0
    THEN ConvertReturn(ns, ConverterConvert(ns.converter, val, couts, cfg))
    ELSE IF stop # NoFailure
    THEN VerifyReturn(ns, ns.verifiers[vidx], cur, stop, cfg)
    ELSE SuccessReturn(cur)

\* C6: a silent validator returns the value and the use_alt flag the same
\* validator returns without silent, always with a null failure, and stops
\* where the failure arose.
C6_Silent ==
    Returned =>
        /\ result.value = NonSilentReturn.value
        /\ result.use_alt = NonSilentReturn.use_alt
        /\ validator.silent => result.failure = NoFailure
        /\ ~validator.silent => result.failure = NonSilentReturn.failure
        /\ NonSilentReturn.failure = stop
        /\ stop # NoFailure =>
            /\ result.value = None \/ ~cfg.join_on_fail
            /\ \A k \in DOMAIN calls : calls[k].n <= vidx

C6_Witness ==
    /\ VerificationFailed
    /\ validator.silent
    /\ vidx = 1
    /\ Len(validator.verifiers) = 2
    /\ result = [value |-> None, failure |-> NoFailure, use_alt |-> TRUE]

\* The failure a callable's exception is turned into.
Classified(cls, callable, out, f) ==
    CASE out = "abort" ->
            f = ValidationFailure(cls, callable.name, AbortMsg, callable.name)
      [] out = "fail" -> f = DomainFailure
      [] out = "raise" ->
            f = ValidationFailure(cls, callable.name, ExcMsg, callable.name)
      [] OTHER -> TRUE

PhaseClassified(cls, callable, outs) ==
    IF callable.is_iter
    THEN /\ Keys(stop) = {i - 1 : i \in FailedAt(outs)}
         /\ \A e \in DOMAIN stop.items :
                Classified(cls, callable, outs[stop.items[e].key + 1], stop.items[e].f)
    ELSE Classified(cls, callable, outs[1], stop)

ExceptionsClassified ==
    /\ ConversionFailed => PhaseClassified("ConversionFailure", validator.converter, couts)
    /\ VerificationFailed =>
            PhaseClassified("VerificationFailure", validator.verifiers[vidx], vouts)

\* C7 (as stated): for every raw value and every callable, scalar or
\* iterable, the call ends with a returned result: an abort signal becomes
\* the phase's failure with the converter or verifier attached, a
\* ValidationFailure is returned unchanged, any other exception becomes a
\* ConversionFailure or VerificationFailure with the name and the message.
C7_NeverRaises ==
    /\ pc # "raised"
    /\ ExceptionsClassified

\* C7 (amended): the same, except that an exception leaves the call when an
\* iterable converter or verifier is handed a value that is not iterable, or
\* when the abort signal was built by an abort() that does not accept the
\* catching phase's converter / verifier keyword.
C7_ExceptionsBecomeFailures ==
    /\ pc = "raised" =>
        LET callable == IF vidx = 0 THEN validator.converter ELSE validator.verifiers[vidx]
            value == IF vidx = 0 THEN val ELSE cur
            outs == IF vidx = 0 THEN couts ELSE vouts
        IN \/ callable.is_iter /\ ~IsIterable(value)
           \/ \E i \in DOMAIN outs : outs[i] = "abort_alien"
    /\ Returned =>
        /\ \A i \in DOMAIN couts : couts[i] # "abort_alien"
        /\ \A i \in DOMAIN vouts : vouts[i] # "abort_alien"
        /\ gate.cont /\ validator.converter.is_iter => IsIterable(val)
    /\ ExceptionsClassified

C7_Witness ==
    /\ ConversionFailed
    /\ validator.converter.is_iter
    /\ couts = <<"abort", "raise">>
    /\ cfg.join_on_fail
    /\ result.value = None
    /\ result.failure.items =
        <<[key |-> 0, f |-> ConversionFailure(AbortMsg, validator.converter)],
          [key |-> 1, f |-> ConversionFailure(ExcMsg, validator.converter)]>>

\* C8: an iterable converter converts every element of an n-element input;
\* with no failure the value is the list of the converted elements, else the
\* failure is a composite keyed by the indices that failed and the value is
\* null under join_on_fail = true (the default) or the n-element list with
\* null at the failed indices under join_on_fail = false.
C8_IterableConversion ==
    /\ DefaultConfig.join_on_fail
    /\ (pc \in {"verify", "validated", "merged"} /\ gate.cont /\ validator.converter.is_iter) =>
        LET n == Len(val.items)
            made == CallsBy("converter")
        IN /\ Len(made) = n /\ Len(couts) = n
           /\ \A i \in 1..n : made[i].i = i - 1 /\ made[i].arg = ElemValue(val, i)
           /\ IF FailedAt(couts) = {}
              THEN /\ ~ConversionFailed
                   /\ cur = ListOf([i \in 1..n |-> Converted(i)])
              ELSE /\ ConversionFailed
                   /\ stop.cls = "CompositeValidationFailure"
                   /\ Len(stop.items) = Cardinality(FailedAt(couts))
                   /\ Keys(stop) = {i - 1 : i \in FailedAt(couts)}
                   /\ result.value = IF cfg.join_on_fail THEN None ELSE PartialConverted

C8_Witness ==
    /\ ConversionFailed
    /\ validator.converter.is_iter
    /\ ~cfg.join_on_fail
    /\ couts = <<"fail", "ok_new">>
    /\ Keys(stop) = {0}
    /\ result.value = ListOf(<<NoneAtom, NewAtom>>)

\* ------------------------------------------------ claims: validate_dict
\* The field just merged was stopped by the gate, or its conversion or
\* verification failed in scalar mode or under join_on_fail = true.
Rejected ==
    \/ GateStopped
    \/ ConversionFailed /\ (~validator.converter.is_iter \/ cfg.join_on_fail)
    \/ VerificationFailed /\ (~validator.verifiers[vidx].is_iter \/ cfg.join_on_fail)

\* explicit default, else default factory, else implicit default
DeclaredByFactory(d) ==
    IF d.default # MISSING THEN Holds(d.default)
    ELSE IF d.default_factory THEN Holds(FactoryResult)
    ELSE IF cfg.implicit_default THEN ImplicitDefault(d.returns)
    ELSE Unset

\* C9 (as stated): a rejected field holds the explicit default, else the
\* default factory's result, else the class-level declared value, else (if
\* enabled) the implicit default of the produced type, and is left unset if
\* none is declared; it never holds the rejected input.
C9_DefaultPriorityAsStated ==
    (pc = "merged" /\ Rejected) =>
        attributes[field] =
            IF decl.default # MISSING THEN Holds(decl.default)
            ELSE IF decl.default_factory THEN Holds(FactoryResult)
            ELSE IF decl.field = ClassValue THEN Holds(ClassValue)
            ELSE IF cfg.implicit_default THEN ImplicitDefault(decl.returns)
            ELSE Unset

\* C9 (amended): a rejected field holds the class-level declared value when
\* the class declares a plain one; otherwise the explicit default, else the
\* default factory's result, else (if enabled) the implicit default of the
\* produced type; with none of these it is left unset, except that it is
\* set to null when the class attribute is the validator factory itself and
\* the class is not a dataclass.  It never holds the rejected input, and no
\* field not yet validated is set.
C9_DeclaredDefault ==
    /\ (pc = "merged" /\ Rejected) =>
        /\ result.use_alt
        /\ attributes[field] =
            IF decl.field = ClassValue THEN Holds(ClassValue)
            ELSE IF ~DeclaredByFactory(decl).set /\ decl.field = FactoryField /\ ~dataclass
            THEN Holds(None)
            ELSE DeclaredByFactory(decl)
        /\ (attributes[field].set /\ val # None) => attributes[field].value # val
    /\ \A k \in Fields : k > field => attributes[k] = Unset

C9_Witness ==
    /\ pc = "merged"
    /\ field = 2
    /\ ConversionFailed
    /\ val = One
    /\ decl = [field |-> MISSING, default |-> ExplicitDefault, default_factory |-> FALSE,
               returns |-> "int"]
    /\ attributes[2] = Holds(ExplicitDefault)
    /\ "b" \in {failures[i].key : i \in DOMAIN failures}

\* C10: a field whose validation succeeds without requesting an alternative
\* has its validated value in the attribute map under its key, also when the
\* validated value is null.
C10_ValidatedValueWritten ==
    (pc = "merged" /\ Succeeded /\ ~result.use_alt) =>
        attributes[field] = Holds(result.value)

\* ------------------------------------------------------------ claims: C11
\* The class validated with the context at path p, and the items of the
\* input the latest validate_dict handed to it.
ClassAt(p) == IF p = <<>> THEN ClassC(rctx) ELSE ClassD

ItemsAt(p) ==
    IF p = <<>> THEN last.items
    ELSE LET bkey == key_filter(rctx, "b") IN
         IF bkey \in KeysOf(last.items) /\ ValueOf(last.items, bkey).kind = "dict"
         THEN NestedItems(ValueOf(last.items, bkey))
         ELSE {}

\* The latest call went through the remainder loop for the input at p.
Harvested(p) ==
    /\ last.kind \in {"dict", "dataclass"}
    /\ ~last.ignore_remainders
    /\ p = <<>> => last.outcome = "returned"

Unconsumed(p) == {k \in KeysOf(ItemsAt(p)) : k \notin validated_keys(rctx, ClassAt(p))}

\* The statement as the specification words it: each context holds, under
\* the key itself, the unconsumed keys of the input validated with it.
PlainEntries(p) == {<<(<<k>>), ValueOf(ItemsAt(p), k)>> : k \in Unconsumed(p)}

HolderOf(p) == IF rctx.share_context THEN <<>> ELSE p

RecordedEntries(p) ==
    {<<(IF rctx.share_context THEN p \o <<k>> ELSE <<k>>), ValueOf(ItemsAt(p), k)>> :
        k \in Unconsumed(p)}

RecordedIn(q) ==
    UNION {IF HolderOf(p) = q /\ Harvested(p) THEN RecordedEntries(p) ELSE {} :
            p \in ContextPaths}

C13_LookupByPath ==
    (query.op = "getitem" /\ IsFailure(answer.chained)) =>
        answer.bytext = answer.chained

\* failures["a"][1]["b"] and failures["a[1].b"] are the failure added third.
C13_Witness ==
    /\ query.op = "getitem"
    /\ query.keys = <<Key(<<"a">>), Idx(1), Key(<<"b">>)>>
    /\ answer.chained = Leaf("f3")
    /\ answer.bytext = Leaf("f3")

\* ------------------------------------------------------------ claims: C14
\* The key sequences that end at a failure that is not a composite.
LeafPaths(t) ==
    {ks \in KeySeqs : Len(ks) > 0 /\ IsFailure(NodeAt(t, ks)) /\ ~IsComposite(NodeAt(t, ks))}

\* p comes before q when, where they part, the key of p was inserted into
\* the composite they share before the key of q.
ComesBefore(t, p, q) ==
    \E d \in 1..Len(p) :
        /\ d <= Len(q)
        /\ SubSeq(p, 1, d - 1) = SubSeq(q, 1, d - 1)
        /\ p[d] # q[d]
        /\ IndexOfKey(NodeAt(t, SubSeq(p, 1, d - 1)).items, p[d], 1)
            < IndexOfKey(NodeAt(t, SubSeq(q, 1, d - 1)).items, q[d], 1)

\* C14: iterating a composite yields one (path, failure) pair for each leaf
\* failure and no composite, the path being the keys from the root to the
\* leaf, in depth-first order following the insertion order of each level.
C14_Iteration ==
    query.op = "iter" =>
        LET pairs == answer.pairs IN
        /\ \A i \in 1..Len(pairs) :
            /\ pairs[i].path \in LeafPaths(tree)
            /\ pairs[i].f = NodeAt(tree, pairs[i].path)
        /\ \A p \in LeafPaths(tree) :
            Cardinality({i \in 1..Len(pairs) : pairs[i].path = p}) = 1
        /\ \A i, j \in 1..Len(pairs) :
            i < j => ComesBefore(tree, pairs[i].path, pairs[j].path)

\* Two leaves, the first below a nested composite that was added before the
\* second, which is at the root.
C14_Witness ==
    /\ query.op = "iter"
    /\ Len(answer.pairs) = 2
    /\ Len(answer.pairs[1].path) = 2
    /\ Len(answer.pairs[2].path) = 1

\* ------------------------------------------------------------ claims: C15
\* C15: for a path of identifier-like keys and non-negative indexes, of any
\* length and mix, parsing the rendered text gives back the same segments.
C15_ParseOfRendered ==
    path_call.op = "of(str(p))" => path_path = path_call.path

\* [1].a[10]: a path that starts with an index and mixes keys and indexes.
C15_Witness ==
    /\ path_call.op = "of(str(p))"
    /\ path_call.path = <<Idx(1), Key(<<"a">>), Idx(10)>>
    /\ path_text = <<"[", "1", "]", ".", "a", "[", "1", "0", "]">>
    /\ path_path = <<Idx(1), Key(<<"a">>), Idx(10)>>

\* ------------------------------------------------------------ claims: C16
\* C16 as stated: rendering the parsed path gives back every well-formed
\* text of the path grammar.
C16_RenderOfParsed ==
    path_call.op = "str(of(s))" => path_text = path_call.text

\* The texts at() can produce: no dot at either end, no dot followed by a
\* dot or by a bracket, no integer written with a leading zero.
Canonical(text) ==
    /\ Len(text) > 0 => text[1] # "." /\ text[Len(text)] # "."
    /\ \A i \in 1..(Len(text) - 1) :
        /\ text[i] = "." => text[i + 1] \notin {".", "["}
        /\ (text[i] = "[" /\ text[i + 1] = "0") => text[i + 2] = "]"

\* C16, amended: rendering the parsed path gives back a well-formed text
\* exactly when no segment of it is empty, every segment after a dot begins
\* with an identifier, and no integer has a leading zero.
C16_RenderOfParsedCanonical ==
    path_call.op = "str(of(s))" =>
        (path_text = path_call.text <=> Canonical(path_call.text))

\* a[0][10].b1 comes back as it was written.
C16_Witness ==
    /\ path_call.op = "str(of(s))"
    /\ path_call.text = <<"a", "[", "0", "]", "[", "1", "0", "]", ".", "b", "1">>
    /\ path_path = <<Key(<<"a">>), Idx(0), Idx(10), Key(<<"b", "1">>)>>
    /\ path_text = path_call.text

\* ------------------------------------------------------------ claims: C17
IsPrefix(q, p) == Len(q) <= Len(p) /\ SubSeq(p, 1, Len(q)) = q

\* C17: or_else returns the validated value, without calling the handler,
\* exactly when every failure path has an allowed path as a prefix, and
\* handler(failures) otherwise; with no allowed path the handler is called
\* exactly when there is a failure.
C17_OrElse ==
    query.op = "or_else" =>
        /\ answer.returned = "validated" <=>
            \A p \in LeafPaths(tree) : \E a \in query.allows : IsPrefix(of(a), p)
        /\ answer.returned \in {"validated", "handler"}
        /\ query.allows = {} => (answer.returned = "handler" <=> LeafPaths(tree) # {})

\* Two failures below a, and a allowed next to a path that covers neither:
\* the value is returned.
C17_Witness ==
    /\ query.op = "or_else"
    /\ query.allows = {at(<<Key(<<"a">>)>>), at(<<Key(<<"b">>)>>)}
    /\ Cardinality(LeafPaths(tree)) = 2
    /\ \A p \in LeafPaths(tree) : Len(p) = 2
    /\ answer.returned = "validated"


\* ------------------------------------------------------------ claims: C18
\* The contexts from the i-th up to the root.
RECURSIVE Lineage(_, _)
Lineage(ss, i) == IF i = 0 THEN <<>> ELSE <<i>> \o Lineage(ss, ss[i].base)

Reverse(seq) == [n \in 1..Len(seq) |-> seq[Len(seq) + 1 - n]]

RECURSIVE Flatten(_)
Flatten(seqs) == IF Len(seqs) = 0 THEN <<>> ELSE Head(seqs) \o Flatten(Tail(seqs))

\* The first of the sources that has the setting.
FirstSet(sources, key) ==
    LET hits == {n \in 1..Len(sources) : Has(sources[n], key)}
    IN sources[CHOOSE n \in hits : \A m \in hits : n <= m][key]

\* The order as stated: the context's explicit settings, the types entered
\* on it, then what its parent resolves, down to the default.
RECURSIVE StatedOrder(_, _)
StatedOrder(ss, i) ==
    IF i = 0 THEN <<DefaultConfiguration>>
    ELSE <<ss[i].contextual>> \o Reverse(ss[i].stack) \o StatedOrder(ss, ss[i].base)

ResolutionOrder(ss, i) ==
    LET line == Lineage(ss, i) IN
    [n \in 1..Len(line) |-> ss[line[n]].contextual]
    \o Flatten([n \in 1..Len(line) |-> Reverse(ss[line[n]].stack)])
    \o <<DefaultConfiguration>>

InnermostOn(i) ==
    LET on_i == {n \in 1..Len(scopes) : scopes[n].ctx = i}
    IN scopes[CHOOSE n \in on_i : \A m \in on_i : m <= n].type

Overridden(ss, i, key) ==
    \E n \in 1..Len(Lineage(ss, i)) : Has(ss[Lineage(ss, i)[n]].contextual, key)

\* C19: inside `with context.on(T)` the settings T registers are effective
\* (where no explicit override stands before them), and leaving the block
\* restores the configuration effective before it was entered, for nested
\* blocks innermost first, whether or not the types are registered.
C19_ScopeRestores ==
    /\ \A i \in 1..Len(stacks) :
        (\E n \in 1..Len(scopes) : scopes[n].ctx = i) =>
            \A key \in SettingKeys :
                (Has(typed_config(InnermostOn(i)), key) /\ ~Overridden(stacks, i, key))
                    => StackGetattr(stacks, i, key) = typed_config(InnermostOn(i))[key]
    /\ exited.ctx # 0 => exited.actual = exited.expected

\* ------------------------------------------------------------ claims: C20
\* C20: entering default_config() makes a copy of it the ambient default;
\* inside the block default_config() is that copy and the configuration
\* entered keeps its values; leaving the block makes the configuration
\* entered the ambient default again, with the values it had, also when
\* blocks are nested.
C20_DefaultScope ==
    /\ gexit.op = "enter" =>
        /\ ambient # gexit.self
        /\ gexit.inside = gexit.at_entry
    /\ Len(withs) > 0 =>
        /\ ambient = withs[Len(withs)].derived
        /\ \A n \in 1..Len(withs) : configs[withs[n].self] = withs[n].at_entry
    /\ gexit.op = "exit" =>
        /\ ambient = gexit.self
        /\ configs[ambient] = gexit.at_entry
        /\ gexit.after = gexit.at_entry

\* An inner block is left after a setting was changed inside it: the change
\* is not seen afterwards.
C20_Witness ==
    /\ gexit.op = "exit"
    /\ gexit.depth = 2
    /\ gexit.inside # gexit.after
    /\ configs[ambient] = gexit.after

\* ------------------------------------------------------------ claims: C21
\* The i-th context and the contexts below it.
Subtree(ss, i) == {j \in 1..Len(ss) : \E n \in 1..Len(Lineage(ss, j)) : Lineage(ss, j)[n] = i}

\* C21: configure() on a context (share_context off) sets what is read on
\* that context and leaves what is read on every context outside its
\* subtree (its ancestors, its siblings and their descendants) and on the
\* global default as it was.
C21_ConfigureFrame ==
    configured.ctx # 0 =>
        /\ configured.after[configured.ctx]["name"] = ExplicitValues[configured.ctx]
        /\ \A j \in 1..Len(configured.before) :
            j \notin Subtree(stacks, configured.ctx)
                => configured.after[j] = configured.before[j]
        /\ configured.default_after = configured.default_before

\* A context with a parent, a sibling and a child is configured: what it
\* reads and what the child reads changes.
C21_Witness ==
    /\ configured.ctx > 1
    /\ \E j \in 1..Len(stacks) :
        /\ j # configured.ctx
        /\ stacks[j].base = stacks[configured.ctx].base
    /\ \E j \in 1..Len(stacks) :
        /\ stacks[j].base = configured.ctx
        /\ configured.after[j] # configured.before[j]
    /\ configured.after[configured.ctx] # configured.before[configured.ctx]


\* ------------------------------------------------------------ claims: C28
\* The value of the call is present, not None and not empty by the built-in
\* rules, so that empty_specs decides.
SpecsDecide == req_in.called /\ req_in.value \notin {VALUE_MISSING, None} /\ ~_check_empty(req_in.value)

TypeMatching(specs, value) == {i \in 1..Len(specs) : IsInstance(value, specs[i].t)}

\* What Requirement.validate returns for a value that is empty, or is not.
ReturnedFor(empty) ==
    IF empty
    THEN RequirementPolicy(req_in.requirement.empty, EmptyFailure,
                           req_in.config.skip_empty, req_in.config.allow_empty)
    ELSE [failure |-> NoFailure, cont |-> TRUE]

\* C28 as stated: the first empty_specs entry of the value's type decides
\* alone whether the value is empty.
C28_FirstTypeMatchDecides ==
    SpecsDecide =>
        LET specs == req_in.config.empty_specs
            hits == TypeMatching(specs, req_in.value)
        IN req_out = ReturnedFor(
            /\ hits # {}
            /\ SpecMatches(specs[CHOOSE i \in hits : \A j \in hits : i <= j], req_in.value))

\* C28: the value is empty exactly when some empty_specs entry of the
\* value's type has a predicate that holds of it or a literal equal to it.
C28_SomeTypeMatchHolds ==
    SpecsDecide =>
        LET specs == req_in.config.empty_specs IN
        req_out = ReturnedFor(
            \E i \in TypeMatching(specs, req_in.value) : SpecMatches(specs[i], req_in.value))

\* Two entries of the value's type, the first does not hold, the second
\* does, and the policy fails an empty value: the value is rejected as empty.
C28_Witness ==
    /\ SpecsDecide
    /\ LET specs == req_in.config.empty_specs IN
        /\ Len(specs) = 2
        /\ TypeMatching(specs, req_in.value) = {1, 2}
        /\ ~SpecMatches(specs[1], req_in.value)
        /\ SpecMatches(specs[2], req_in.value)
    /\ req_out.failure = EmptyFailure
    /\ ~req_out.cont


\* ------------------------------------------------------------ claims: C22
\* The methods whose turn has passed.
Decided == {i \in 1..Len(hcls) : i < hidx}
FailedFields == hkeys \cap DependencyFields

\* C22 as stated: a method is invoked exactly when no False dependency has
\* failed and either it has True dependencies and at least one of them
\* succeeded, or it has no dependency at all and no failure was collected.
C22_InvokedAsStated ==
    \A i \in Decided :
        i \in hran <=>
            /\ hcls[i].negative \cap FailedFields = {}
            /\ \/ \E d \in hcls[i].positive : d \notin FailedFields
               \/ hcls[i].positive = {} /\ hcls[i].negative = {} /\ FailedFields = {}

\* C22: a method is invoked exactly when no False dependency has failed and
\* either it has True dependencies and every one of them succeeded, or it
\* has no True dependency and no field failed.
C22_Invoked ==
    \A i \in Decided :
        i \in hran <=>
            /\ hcls[i].negative \cap FailedFields = {}
            /\ \/ hcls[i].positive # {} /\ \A d \in hcls[i].positive : d \notin FailedFields
               \/ hcls[i].positive = {} /\ FailedFields = {}

\* A method with two True dependencies, one failed and one not, is passed
\* over; one with a False dependency only is invoked when nothing failed.
C22_Witness ==
    \E i \in Decided :
        /\ hcls[i].positive = {"v1", "v2"}
        /\ "v2" \in FailedFields /\ "v1" \notin FailedFields
        /\ hcls[i].negative \cap FailedFields = {}
        /\ i \notin hran

\* ------------------------------------------------------------ claims: C23
\* The documented rule, from the failures of the fields.
DocumentedRule(m, failed) ==
    IF \E d \in m.negative : d \in failed THEN FALSE
    ELSE IF m.positive # {} THEN m.positive \cap failed = {}
    ELSE failed = {}

\* C23: whether a method runs follows the documented rule applied to the
\* fields that failed, and the failure of a method invoked earlier in the
\* same run changes nothing of it.
C23_FieldsAloneDecide ==
    \A i \in Decided : i \in hran <=> DocumentedRule(hcls[i], FailedFields)

\* No field failed, the first method failed, and the second, which has no
\* dependency, is invoked all the same.
C23_Witness ==
    /\ FailedFields = {}
    /\ hidx > 2
    /\ MethodNames[1] \in hfail
    /\ hcls[2] = VerifierMethod({}, {})
    /\ 2 \in hran



\* C24: when the raw input is neither a dict nor a dataclass instance,
\* validate_dict validates no field, records no remainder, runs no post-hoc
\* method and returns a result whose value is None and whose failures, when
\* iterated, are one pair: the empty path and a failure named "malformed".
C24_MalformedShortCircuits ==
    last.kind = "other" =>
        /\ last.outcome = "malformed"
        /\ last.validated = {}
        /\ ~last.posthoc
        /\ rem = prev_rem
        /\ last.value = "None"
        /\ Len(FailurePairs(last.failures)) = 1
        /\ FailurePairs(last.failures)[1].path = <<>>
        /\ FailurePairs(last.failures)[1].f.name = "malformed"

\* A malformed call on a context that holds remainders of an earlier call.
C24_Witness ==
    /\ last.kind = "other"
    /\ last.outcome = "malformed"
    /\ <<(<<"x">>), LeafV("y")>> \in rem[<<>>]
    /\ <<(<<"e">>), LeafV("y")>> \in rem[<<"b">>]


\* C25: a call that is handed a key ValidationConfiguration has no field
\* for raises when it is made and changes nothing, whichever of derive, set,
\* configure and validatable it is.
GivesUnknownKey == klast.op # "none" /\ "unknown" \in GivenKeys(klast.settings)
C25_UnknownKeyRejected ==
    GivesUnknownKey =>
        /\ klast.raised
        /\ kconf = klast.before.conf
        /\ kctx = klast.before.ctx
        /\ kreg = klast.before.reg

\* C25, for the two operations of ValidationConfiguration alone
C25_ConfigurationRejects ==
    GivesUnknownKey /\ klast.op \in {"derive", "set"} =>
        /\ klast.raised
        /\ kconf = klast.before.conf


\* C26: the context a converter or verifier is called with for a field, or
\* for element i of an iterable field, has as its path the field names and
\* indices of the blocks that are open, outermost first; the segment of a
\* block that was left is in no path seen later.  With share_context off,
\* on for the root, on for a child context and on by the registered
\* configuration of the nested type.
C26_PathIsLocation == wseen.op = "call" => wseen.path = wseen.location

\* C26 where share_context is set on the root context or nowhere
SharedByRootOrNowhere ==
    /\ wreg = {}
    /\ \A i \in 2..Len(wctx) : ~Has(wctx[i].contextual, "share_context")
C26_PathIsLocationAtRoot ==
    SharedByRootOrNowhere /\ wseen.op = "call" => wseen.path = wseen.location

\* ValidationContext.__exit__ never pops an empty path.
C26_NoEmptyPop ==
    wphase = "run" /\ wframes[Len(wframes)].kind # "type" =>
        LET i == wframes[Len(wframes)].ctx IN
        Shares(wctx, i) /\ (wctx[i].base = 0 \/ Shares(wctx, wctx[i].base))
            => Len(wctx[i].path) > 0


\* C27: a setting that nothing overrides is read as the global default has
\* it when it is read, on a context made before the default was changed and
\* in a validation that is given no context.
C27_ReadsCurrentDefault ==
    gread.op # "none" => gread.value = configs[ambient][gread.key]

\* C27 for validate_dict without a context, which makes its own context
C27_FreshContextReadsDefault ==
    gread.op = "fresh" => gread.value = configs[ambient][gread.key]


\* C29: for a composite failure, one without entries included, and a path
\* text s that is not empty, failures[s] is None exactly when the tree holds
\* no failure at s, and `s in failures` is true exactly when failures[s] is
\* not None.
C29_ItemAndContainsAgree ==
    query.op = "contains" =>
        /\ (answer.bytext = NoFailure <=> answer.held = NoFailure)
        /\ (answer.contained <=> answer.bytext # NoFailure)

\* C29 for `s in failures` alone
C29_ContainsIsExact ==
    query.op = "contains" => (answer.contained <=> answer.held # NoFailure)

\* C29 for a composite whose composites all hold an entry
RECURSIVE HasEmptyComposite(_)
HasEmptyComposite(f) ==
    IsComposite(f) /\ (Len(f.items) = 0 \/ \E i \in 1..Len(f.items) : HasEmptyComposite(f.items[i].f))
C29_AgreeWithoutEmpty ==
    query.op = "contains" /\ ~HasEmptyComposite(tree) =>
        /\ (answer.bytext = NoFailure <=> answer.held = NoFailure)
        /\ (answer.contained <=> answer.bytext # NoFailure)


\* C30: for a dict and for a dataclass instance alike, validate_dict without
\* ignore_remainders returns a result, and the context it was given then
\* holds every unconsumed key of the input with its value, with isolated
\* contexts and under share_context; an unconsumed key never makes it raise.
C30_RemaindersForEveryShape ==
    last.kind \in {"dict", "dataclass"} /\ ~last.ignore_remainders =>
        /\ last.outcome = "returned"
        /\ RecordedEntries(<<>>) \subseteq rem[<<>>]

\* C30 for a dict
C30_RemaindersForDict ==
    last.kind = "dict" /\ ~last.ignore_remainders =>
        /\ last.outcome = "returned"
        /\ RecordedEntries(<<>>) \subseteq rem[<<>>]

====
